---------------------------- MODULE Spec2Model ----------------------------
(***************************************************************************)
(* Invoice-It (src/src/App.jsx): the state normaliser, the totals          *)
(* calculator and the handlers of InvoiceItApp that replace the            *)
(* application state.                                                      *)
(*                                                                         *)
(* JavaScript values are tagged records, one field set per type, so that   *)
(* values of different types compare unequal:                              *)
(*   undefined, null, booleans, numbers (finite, +-Infinity, NaN),         *)
(*   strings, arrays (elements plus own properties) and objects.           *)
(* A finite number is an integer count of hundredths, Num(250) is 2.5, or  *)
(* a count of hundredths of 1e200, Huge(250) is 2.5e200.                   *)
(* A string is a literal, the ISO form of a day (DateStr) or a value the   *)
(* id generator returned (UidStr).                                         *)
(***************************************************************************)
EXTENDS Integers, Sequences, FiniteSets, TLC

---------------------------------------------------------------------------
(* Bounds of the model *)

\* Operations of one run that add or change data: an import, a new or
\* duplicated invoice, a new client, a change of a settings input, of the
\* status select of a row or of an input of the invoice editor.
MaxSteps == 2

\* Days the clock may advance between two applications of a function.
MaxTicks == 1

\* Largest length of an array of a raw document.
MaxEntries == 2

---------------------------------------------------------------------------
(* JavaScript values *)

Undefined == [t |-> "undefined"]
Null == [t |-> "null"]
Bool(b) == [t |-> "bool", b |-> b]
Num(n) == [t |-> "num", n |-> n]
Huge(m) == [t |-> "huge", m |-> m]
NaN == [t |-> "nan"]
Inf(sg) == [t |-> "inf", sg |-> sg]
Str(s) == [t |-> "str", s |-> s]
DateStr(day) == [t |-> "str", day |-> day]
UidStr(k) == [t |-> "str", uid |-> k]
NoProps == [k \in {} |-> Undefined]
Arr(a) == [t |-> "arr", a |-> a, o |-> NoProps]
Obj(o) == [t |-> "obj", o |-> o]
EmptyObj == Obj(NoProps)

\* The unit of Num: hundredths.
Unit == 100
Whole(n) == Num(n * Unit)

IsNullish(v) == v.t \in {"undefined", "null"}
IsObjectLike(v) == v.t \in {"arr", "obj"}
IsArray(v) == v.t = "arr"
IsString(v) == v.t = "str"
IsNumberType(v) == v.t \in {"num", "huge", "nan", "inf"}
IsFinite(v) == v.t \in {"num", "huge"}
IsDateStr(v) == v.t = "str" /\ "day" \in DOMAIN v

\* ToBoolean.
Truthy(v) ==
    CASE v.t \in {"undefined", "null", "nan"} -> FALSE
      [] v.t = "bool" -> v.b
      [] v.t = "num" -> v.n # 0
      [] v.t = "str" -> ~("s" \in DOMAIN v /\ v.s = "")
      [] OTHER -> TRUE

\* a || b
Or(a, b) == IF Truthy(a) THEN a ELSE b

\* a ?? b
Coalesce(a, b) == IF IsNullish(a) THEN b ELSE a

\* v.k for a value that is not null or undefined: an own property of an
\* object or array, undefined on everything else (the model's keys are no
\* built-in property names).
Get(v, k) ==
    IF IsObjectLike(v) /\ k \in DOMAIN v.o THEN v.o[k] ELSE Undefined

\* f @@ g with g winning: the object spread { ...f, ...g }.
Merge(f, g) ==
    [k \in DOMAIN f \cup DOMAIN g |-> IF k \in DOMAIN g THEN g[k] ELSE f[k]]

IndexKey(i) == ToString(i - 1)

\* The own enumerable properties a spread copies.  A primitive contributes
\* none; the literal non-empty strings of the model are never spread.
OwnProps(v) ==
    CASE v.t = "obj" -> v.o
      [] v.t = "arr" ->
            Merge([k \in {IndexKey(i) : i \in DOMAIN v.a} |->
                     v.a[CHOOSE i \in DOMAIN v.a : IndexKey(i) = k]], v.o)
      [] v.t \in {"undefined", "null", "bool", "num", "huge", "nan", "inf"} -> NoProps
      [] v.t = "str" /\ "s" \in DOMAIN v /\ v.s = "" -> NoProps

\* { ...o, k: x }
With(o, k, x) == Obj(Merge(OwnProps(o), [j \in {k} |-> x]))

Abs(n) == IF n < 0 THEN -n ELSE n
Sign(n) == IF n < 0 THEN -1 ELSE IF n > 0 THEN 1 ELSE 0

---------------------------------------------------------------------------
(* Numbers *)

\* Number(s) for the literal strings of the model.
NumberOfString(s) ==
    CASE s = "" -> Num(0)
      [] s = "0" -> Num(0)
      [] s = "1" -> Whole(1)
      [] s = "2" -> Whole(2)
      [] s = "3" -> Whole(3)
      [] s = "7" -> Whole(7)
      [] s = "-5" -> Whole(-5)
      [] s = "2.0" -> Whole(2)
      [] s = "0.5" -> Num(50)
      [] s = "1e200" -> Huge(Unit)
      [] s = "1e400" -> Inf(1)
      [] OTHER -> NaN

\* s.replace(",", "."): the first comma only.
ReplaceComma(s) ==
    CASE s = "2,0" -> "2.0"
      [] s = "0,5" -> "0.5"
      [] OTHER -> s

\* Number(String(v).replace(",", ".")) of line 31, v not null or undefined.
ParseNumber(v) ==
    CASE v.t \in {"num", "huge", "nan", "inf"} -> v
      [] v.t = "bool" -> NaN
      [] v.t = "obj" -> NaN
      [] v.t = "arr" /\ v.a = <<>> -> Num(0)
      [] v.t = "str" ->
            IF "s" \in DOMAIN v THEN NumberOfString(ReplaceComma(v.s)) ELSE NaN

toNumber(v) ==
    LET n == IF IsNullish(v) THEN Num(0) ELSE ParseNumber(v)
    IN  IF IsFinite(n) THEN n ELSE Num(0)

\* Number(v) of a value that is a number, a literal string or nullish.
ToNumeric(v) ==
    CASE v.t = "undefined" -> NaN
      [] v.t = "null" -> Num(0)
      [] v.t = "bool" -> IF v.b THEN Whole(1) ELSE Num(0)
      [] v.t \in {"num", "huge", "nan", "inf"} -> v
      [] v.t = "str" -> IF "s" \in DOMAIN v THEN NumberOfString(v.s) ELSE NaN
      [] v.t = "obj" -> NaN
      [] v.t = "arr" /\ v.a = <<>> -> Num(0)

\* The sign of a number that is not NaN.
SignOf(a) ==
    CASE a.t = "num" -> Sign(a.n)
      [] a.t = "huge" -> Sign(a.m)
      [] a.t = "inf" -> a.sg

\* a * b on numbers.  1e200 * 1e200 is beyond Number.MAX_VALUE: Infinity.
\* The products of the model's values are exact.
JsMul(a, b) ==
    CASE a.t = "nan" \/ b.t = "nan" -> NaN
      [] a.t \in {"num", "huge", "inf"} /\ b.t \in {"num", "huge", "inf"} ->
            IF SignOf(a) = 0 \/ SignOf(b) = 0
            THEN IF a.t = "inf" \/ b.t = "inf" THEN NaN ELSE Num(0)
            ELSE IF a.t = "inf" \/ b.t = "inf" \/ (a.t = "huge" /\ b.t = "huge")
            THEN Inf(SignOf(a) * SignOf(b))
            ELSE IF a.t = "huge"
            THEN Huge(SignOf(a) * SignOf(b) * ((Abs(a.m) * Abs(b.n)) \div Unit))
            ELSE IF b.t = "huge"
            THEN Huge(SignOf(a) * SignOf(b) * ((Abs(a.n) * Abs(b.m)) \div Unit))
            ELSE Num(SignOf(a) * SignOf(b) * ((Abs(a.n) * Abs(b.n)) \div Unit))

\* a + b on numbers.  A number of the small scale vanishes in the rounding
\* of a sum with one of the scale of 1e200.
JsAdd(a, b) ==
    CASE a.t = "nan" \/ b.t = "nan" -> NaN
      [] a.t = "inf" /\ b.t = "inf" -> IF a.sg = b.sg THEN a ELSE NaN
      [] a.t = "inf" -> a
      [] b.t = "inf" -> b
      [] a.t = "huge" /\ b.t = "huge" ->
            IF a.m + b.m = 0 THEN Num(0) ELSE Huge(a.m + b.m)
      [] a.t = "huge" -> a
      [] b.t = "huge" -> b
      [] OTHER -> Num(a.n + b.n)

\* a / 100 on numbers.
JsDiv100(a) ==
    CASE a.t = "num" -> Num(Sign(a.n) * (Abs(a.n) \div 100))
      [] a.t = "huge" /\ a.m % 100 = 0 -> Huge(a.m \div 100)
      [] a.t \in {"nan", "inf"} -> a

MathMax1_min(a) ==
    CASE a.t = "num" -> IF a.n < Unit THEN a ELSE Whole(1)
      [] a.t = "huge" -> IF a.m < 0 THEN a ELSE Whole(1)

\* Math.max(1, a)
MathMax1(a) ==
    CASE a.t = "nan" -> NaN
      [] a.t = "inf" -> IF a.sg > 0 THEN a ELSE Whole(1)
      [] a.t = "num" -> IF a.n > Unit THEN a ELSE Whole(1)
      [] a.t = "huge" -> IF a.m > 0 THEN a ELSE Whole(1)

---------------------------------------------------------------------------
(* Dates *)

\* todayISO(): the UTC calendar day of the clock, in ISO form.
todayISO(today) == DateStr(today)

\* Hours of a day.
DayHours == 24

\* addDaysISO(iso, days) in a time zone tz hours east of UTC.  The string
\* is read as local midnight, the day of the month is advanced in local
\* time, and toISOString gives the UTC day of that instant.  A value that
\* is no ISO day, or an offset that is no finite number or is beyond the
\* range of dates, makes an invalid date: toISOString throws and the catch
\* returns iso.
addDaysISO(iso, days, tz) ==
    LET d == ToNumeric(Or(days, Num(0)))
    IN  IF ~IsDateStr(iso) \/ d.t # "num" THEN iso
        ELSE LET offset == Sign(d.n) * (Abs(d.n) \div Unit)
                 localMidnight == (iso.day + offset) * DayHours - tz
             IN  DateStr(localMidnight \div DayHours)

---------------------------------------------------------------------------
(* Totals *)

STATUS == {"Draft", "Sent", "Paid", "Overdue"}

\* The elements of inv.items, or none when it is no array (line 83).
ItemsOf(inv) == IF IsArray(Get(inv, "items")) THEN Get(inv, "items").a ELSE <<>>

\* The callback of reduce reads it.qty of every element: a null or
\* undefined element is a TypeError.
calcTotalsThrows(inv) == \E i \in DOMAIN ItemsOf(inv) : IsNullish(ItemsOf(inv)[i])

LineTotal_clamped(it) ==
    LET p == JsMul(toNumber(Get(it, "qty")), toNumber(Get(it, "unitPrice")))
    IN  IF p.t = "num" /\ p.n < 0 THEN Num(0) ELSE p

\* toNumber(it.qty) * toNumber(it.unitPrice) of line 84.
LineTotal(it) == JsMul(toNumber(Get(it, "qty")), toNumber(Get(it, "unitPrice")))

RECURSIVE NetFrom(_, _, _)
NetFrom(items, i, sum) ==
    IF i > Len(items) THEN sum
    ELSE NetFrom(items, i + 1, JsAdd(sum, LineTotal(items[i])))

\* calcTotals(inv) where it does not throw.
calcTotals(inv) ==
    LET net == NetFrom(ItemsOf(inv), 1, Num(0))
        vatRate == toNumber(Get(inv, "vatRate"))
        vat == JsMul(net, JsDiv100(vatRate))
        gross == JsAdd(net, vat)
    IN  [net |-> net, vatRate |-> vatRate, vat |-> vat, gross |-> gross]

---------------------------------------------------------------------------
(* The normaliser *)

baseSettings ==
    [currency |-> Str("EUR"), defaultVatRate |-> Whole(19),
     invoicePrefix |-> Str("INV"), nextInvoiceNumber |-> Whole(1),
     defaultDueDays |-> Whole(14)]

baseProfile ==
    [businessName |-> Str(""), address |-> Str(""), email |-> Str(""),
     phone |-> Str(""), taxId |-> Str(""), vatId |-> Str(""), bank |-> Str(""),
     iban |-> Str(""), bic |-> Str(""), footerNotes |-> Str("")]

base ==
    Obj([settings |-> Obj(baseSettings), profile |-> Obj(baseProfile),
         clients |-> Arr(<<>>), invoices |-> Arr(<<>>)])

\* A step of a map that draws ids: whether it threw, what it built so far,
\* and the number of ids drawn so far.
Step(threw, out, uid) == [threw |-> threw, out |-> out, uid |-> uid]

OrUid_always_fresh(x, uid) == UidStr(uid + 1)

\* x || uid()
OrUid(x, uid) == IF Truthy(x) THEN x ELSE UidStr(uid + 1)
UidAfter(x, uid) == IF Truthy(x) THEN uid ELSE uid + 1

blankItem(uid) ==
    Obj([id |-> UidStr(uid + 1), desc |-> Str(""), qty |-> Whole(1),
         unit |-> Str(""), unitPrice |-> Num(0)])

\* Lines 132-138, for an element that is not null or undefined.
normItem(it, uid) ==
    Obj([id |-> OrUid(Get(it, "id"), uid),
         desc |-> Or(Get(it, "desc"), Str("")),
         qty |-> IF IsFinite(toNumber(Get(it, "qty")))
                 THEN toNumber(Get(it, "qty")) ELSE Whole(1),
         unit |-> Or(Get(it, "unit"), Str("")),
         unitPrice |-> IF IsFinite(toNumber(Get(it, "unitPrice")))
                       THEN toNumber(Get(it, "unitPrice")) ELSE Num(0)])

RECURSIVE normItems(_, _, _)
normItems(items, i, st) ==
    IF st.threw \/ i > Len(items) THEN st
    ELSE IF IsNullish(items[i]) THEN Step(TRUE, st.out, st.uid)
    ELSE normItems(items, i + 1,
                   Step(FALSE, Append(st.out, normItem(items[i], st.uid)),
                        UidAfter(Get(items[i], "id"), st.uid)))

normStatus_keeps(v) == v

\* STATUS.includes(inv.status) ? inv.status : "Draft" of line 129.
normStatus(v) ==
    IF IsString(v) /\ "s" \in DOMAIN v /\ v.s \in STATUS THEN v ELSE Str("Draft")

\* Lines 123-141 for one element inv that is not null or undefined; the id
\* of the invoice is drawn before the ids of its items.
normInvoice(inv, settings, today, tz, uid) ==
    LET u1 == UidAfter(Get(inv, "id"), uid)
        issue == Or(Get(inv, "issueDate"), todayISO(today))
        its == IF IsArray(Get(inv, "items"))
               THEN normItems(Get(inv, "items").a, 1, Step(FALSE, <<>>, u1))
               ELSE Step(FALSE, <<blankItem(u1)>>, u1 + 1)
    IN  Step(its.threw,
             Obj([id |-> OrUid(Get(inv, "id"), uid),
                  invoiceNumber |-> Or(Get(inv, "invoiceNumber"), Str("")),
                  issueDate |-> issue,
                  dueDate |-> Or(Get(inv, "dueDate"),
                                 addDaysISO(issue, Get(settings, "defaultDueDays"), tz)),
                  clientId |-> Or(Get(inv, "clientId"), Str("")),
                  status |-> normStatus(Get(inv, "status")),
                  vatRate |-> IF IsFinite(toNumber(Get(inv, "vatRate")))
                              THEN toNumber(Get(inv, "vatRate"))
                              ELSE Get(settings, "defaultVatRate"),
                  items |-> Arr(its.out),
                  notes |-> IF IsString(Get(inv, "notes"))
                            THEN Get(inv, "notes") ELSE Str("")]),
             its.uid)

RECURSIVE normInvoices(_, _, _, _, _, _)
normInvoices(invs, i, settings, today, tz, st) ==
    IF st.threw \/ i > Len(invs) THEN st
    ELSE IF IsNullish(invs[i]) THEN Step(TRUE, st.out, st.uid)
    ELSE LET r == normInvoice(invs[i], settings, today, tz, st.uid)
         IN  normInvoices(invs, i + 1, settings, today, tz,
                          Step(r.threw, Append(st.out, r.out), r.uid))

\* Lines 143-151 for one element that is not null or undefined.
normClient(c, uid) ==
    Obj([id |-> OrUid(Get(c, "id"), uid),
         name |-> Or(Get(c, "name"), Str("")),
         address |-> Or(Get(c, "address"), Str("")),
         email |-> Or(Get(c, "email"), Str("")),
         phone |-> Or(Get(c, "phone"), Str("")),
         contact |-> Or(Get(c, "contact"), Str("")),
         notes |-> Or(Get(c, "notes"), Str(""))])

RECURSIVE normClients(_, _, _)
normClients(cs, i, st) ==
    IF st.threw \/ i > Len(cs) THEN st
    ELSE IF IsNullish(cs[i]) THEN Step(TRUE, st.out, st.uid)
    ELSE normClients(cs, i + 1,
                     Step(FALSE, Append(st.out, normClient(cs[i], st.uid)),
                          UidAfter(Get(cs[i], "id"), st.uid)))

\* d.k1 = x1; ... on an object or an array.
Assign(d, f) == [d EXCEPT !.o = Merge(d.o, f)]

ElementsOrNone(v) == IF IsArray(v) THEN v.a ELSE <<>>

\* normalizeData(raw) at clock day today, in time zone tz, after uid ids
\* were drawn.  threw: a TypeError left the function; out: the value
\* returned, which is raw itself, assigned to, when raw is an object.
normalizeData(raw, today, tz, uid) ==
    LET d == IF Truthy(raw) /\ IsObjectLike(raw) THEN raw ELSE base
        settings == Obj(Merge(baseSettings, OwnProps(Or(Get(d, "settings"), EmptyObj))))
        profile == Obj(Merge(baseProfile, OwnProps(Or(Get(d, "profile"), EmptyObj))))
        invs == normInvoices(ElementsOrNone(Get(d, "invoices")), 1, settings,
                             today, tz, Step(FALSE, <<>>, uid))
        cls == IF invs.threw THEN Step(TRUE, <<>>, invs.uid)
               ELSE normClients(ElementsOrNone(Get(d, "clients")), 1,
                                Step(FALSE, <<>>, invs.uid))
    IN  Step(cls.threw,
             Assign(d, [settings |-> settings, profile |-> profile,
                        clients |-> Arr(cls.out), invoices |-> Arr(invs.out)]),
             cls.uid)

\* raw after lines 116-120: the four assignments that precede the maps.
coerced(d, settings, profile) ==
    Assign(d, [settings |-> settings, profile |-> profile,
               clients |-> Arr(ElementsOrNone(Get(d, "clients"))),
               invoices |-> Arr(ElementsOrNone(Get(d, "invoices")))])

\* The object raw after normalizeData(raw) with result r: d is raw itself
\* when raw is an object, so the assignments land in it.
rawAfter(raw, r) ==
    IF Truthy(raw) /\ IsObjectLike(raw)
    THEN IF r.threw
         THEN coerced(raw,
                      Obj(Merge(baseSettings, OwnProps(Or(Get(raw, "settings"), EmptyObj)))),
                      Obj(Merge(baseProfile, OwnProps(Or(Get(raw, "profile"), EmptyObj)))))
         ELSE r.out
    ELSE raw

---------------------------------------------------------------------------
(* The state of InvoiceItApp *)

VARIABLES
    app,              \* useState app (line 160)
    activeInvoiceId,  \* useState activeInvoiceId (line 180)
    toast,            \* useState toast (line 165)
    raised,           \* the notices the last handler raised, in order
    pendingImport,    \* the file importJSON is awaiting the text of
    invoiceModalOpen, \* useState invoiceModalOpen (line 184)
    draft,            \* useState draft of the mounted InvoiceModal (line 1011)
    stored,           \* localStorage under LS_KEY (lines 161, 173)
    previewOpen,      \* useState previewOpen (line 185)
    printTimers,      \* pending timeouts of printInvoicePDF (line 1901)
    toastTimer,       \* toastTimer.current: the id of the last hide timer, 0 for
                      \* null (the ids setTimeout returns are positive)
    timers,           \* the ids of the hide timers that are pending
    hist,             \* what the run did so far: whether an import replaced the
                      \* state, whether a settings input changed, and the invoice
                      \* numbers createInvoice and duplicateInvoice assigned
    last,             \* the handler that ran last, with its arguments
    today,            \* the UTC day of the system clock
    tz,               \* hours the local time zone is east of UTC
    uidc,             \* ids drawn from uid() so far
    ticks, steps,     \* counters that bound a run
    fnIn, fnArg, fnOut, fnPc \* a function under check: its input, the object
                             \* passed after the call, its results, its position

vars == <<app, activeInvoiceId, toast, raised, pendingImport, invoiceModalOpen,
          draft, stored, previewOpen, printTimers, toastTimer, timers, hist, last,
          today, tz, uidc, ticks, steps, fnIn, fnArg, fnOut, fnPc>>

modalVars == <<invoiceModalOpen, draft>>
fnVars == <<fnIn, fnArg, fnOut, fnPc>>
uiVars == <<previewOpen, printTimers, toastTimer, timers>>

\* No overlay covers the page: neither the editor (ModalLight, line 787)
\* nor the print preview (line 439) is open.
NoOverlay == ~invoiceModalOpen /\ ~previewOpen


\* The first day of a run.
StartDay == 10

\* Time zones a browser may run in.
TimeZones == {0, 1}

Settings(a) == Get(a, "settings")
Clients(a) == ElementsOrNone(Get(a, "clients"))
Invoices(a) == ElementsOrNone(Get(a, "invoices"))

NoFile == [file |-> "none"]
NoOp == [op |-> "none"]

\* notify(msg) of lines 166-170, as far as the notice shown goes; its
\* timer is followed under SpecNotify.
Notified(msg) == /\ toast' = Str(msg)
                 /\ raised' = <<msg>>

\* The text of a file: JSON text of a value, or text JSON.parse rejects.
JsonText(v) == [file |-> "json", value |-> v]
Garbage == [file |-> "garbage"]

\* The value JSON.stringify(v) is the text of: a property that is undefined
\* is left out, an element that is undefined is null, NaN and the
\* infinities are null, and an array keeps its elements only.
RECURSIVE Jsonable(_)
Jsonable(v) ==
    CASE v.t \in {"undefined", "nan", "inf"} -> Null
      [] v.t = "arr" -> Arr([i \in DOMAIN v.a |-> Jsonable(v.a[i])])
      [] v.t = "obj" ->
            Obj([k \in {j \in DOMAIN v.o : v.o[j] # Undefined} |-> Jsonable(v.o[k])])
      [] OTHER -> v

autosave_on_mount_only(st, old, new) == st

\* The effect of lines 172-174 after a render: it runs when app is not the
\* app of the render before, and writes JSON.stringify(app).
autosave(st, old, new) == IF new # old THEN JsonText(Jsonable(new)) ELSE st

\* A handler, the render it causes and the effects of that render are one
\* step: React runs the effects of a render before it handles the next
\* update.
Autosaved == stored' = autosave(stored, app, app')

---------------------------------------------------------------------------
(* Import *)

\* safeParse(s, fallback), lines 21-28.
safeParse(s, fallback) ==
    IF s.file = "garbage" THEN fallback ELSE Coalesce(s.value, fallback)

importRejects_parsed_only(parsed) == ~Truthy(parsed)

\* The test of line 251.
importRejects(parsed) ==
    \/ ~Truthy(parsed)
    \/ /\ ~Truthy(Get(parsed, "clients"))
       /\ ~Truthy(Get(parsed, "invoices"))
       /\ ~Truthy(Get(parsed, "settings"))

sampleClient ==
    Obj([id |-> Str("c1"), name |-> Str("Acme"), address |-> Str(""),
         email |-> Str(""), phone |-> Str(""), contact |-> Str(""),
         notes |-> Str("")])

sampleItem(q, p) ==
    Obj([id |-> Str("it1"), desc |-> Str("work"), qty |-> q, unit |-> Str("h"),
         unitPrice |-> p])

sampleInvoice(id, clientId, status, rate) ==
    Obj([id |-> Str(id), invoiceNumber |-> Str("INV-0001"),
         issueDate |-> DateStr(IF status = "Paid" THEN StartDay - 1 ELSE StartDay - 2),
         dueDate |-> DateStr(StartDay + 5),
         clientId |-> Str(clientId), status |-> Str(status), vatRate |-> rate,
         items |-> Arr(<<sampleItem(Whole(2), Whole(50))>>), notes |-> Str("")])

\* A document of another writer: settings that hold a text and a counter
\* of 0, and two invoices with one id, one of them with a status of another
\* spelling.
legacyDocument ==
    Obj([settings |-> Obj([nextInvoiceNumber |-> Num(0), defaultVatRate |-> Str("abc")]),
         invoices |-> Arr(<<Obj([id |-> Str("a"), status |-> Str("paid"),
                                 vatRate |-> Whole(7)]),
                            Obj([id |-> Str("a"), status |-> Str("Sent")])>>)])

\* The documents offered for import.
ImportFiles ==
    { Garbage,
      JsonText(Null), JsonText(Str("text")), JsonText(Arr(<<>>)),
      JsonText(Obj([foo |-> Whole(1)])),
      JsonText(Obj([clients |-> Null])),
      JsonText(Obj([invoices |-> Arr(<<Null>>)])),
      JsonText(Obj([invoices |-> Arr(<<EmptyObj>>)])),
      JsonText(Obj([settings |-> Obj([nextInvoiceNumber |-> Num(0)])])),
      JsonText(Obj([settings |-> Obj([defaultDueDays |-> Num(0)])])),
      JsonText(legacyDocument),
      JsonText(Obj([clients |-> Arr(<<sampleClient>>),
                    invoices |-> Arr(<<sampleInvoice("i1", "c1", "Sent", Whole(19)),
                                       sampleInvoice("i2", "", "Paid", Num(0))>>)])) }

\* importJSON up to the await of line 249: no file, nothing happens.  The
\* file input lies under the overlay of an open editor.
ImportStart ==
    /\ NoOverlay
    /\ pendingImport = NoFile
    /\ steps < MaxSteps
    /\ \E f \in ImportFiles \cup {NoFile} :
          /\ pendingImport' = f
          /\ steps' = IF f = NoFile THEN steps ELSE steps + 1
          /\ last' = [op |-> "importStart"]
    /\ raised' = <<>>
    /\ UNCHANGED <<app, activeInvoiceId, toast, today, tz, uidc, ticks>>
    /\ UNCHANGED modalVars
    /\ UNCHANGED fnVars
    /\ UNCHANGED <<uiVars, hist>>
    /\ Autosaved

\* importJSON from line 250 on, when the text has arrived.  A TypeError in
\* normalizeData rejects the promise of the async function: nothing after
\* it runs.
ImportFinish ==
    /\ pendingImport # NoFile
    /\ \E parsed \in {safeParse(pendingImport, Null)} :
       \E r \in {normalizeData(parsed, today, tz, uidc)} :
           IF importRejects(parsed)
           THEN /\ Notified("Invalid JSON")
                /\ last' = [op |-> "import", file |-> pendingImport,
                            outcome |-> "refused"]
                /\ UNCHANGED <<app, activeInvoiceId, uidc, hist>>
           ELSE IF r.threw
           THEN /\ raised' = <<>>
                /\ last' = [op |-> "import", file |-> pendingImport,
                            outcome |-> "threw"]
                /\ uidc' = r.uid
                /\ UNCHANGED <<app, activeInvoiceId, toast, hist>>
           ELSE /\ app' = r.out
                /\ activeInvoiceId' = Null
                /\ hist' = [hist EXCEPT !.imported = TRUE]
                /\ Notified("Imported")
                /\ uidc' = r.uid
                /\ last' = [op |-> "import", file |-> pendingImport,
                            outcome |-> "replaced"]
    /\ pendingImport' = NoFile
    /\ UNCHANGED <<today, tz, ticks, steps>>
    /\ UNCHANGED modalVars
    /\ UNCHANGED fnVars
    /\ UNCHANGED uiVars
    /\ Autosaved

---------------------------------------------------------------------------
(* Invoices *)

\* s.trim() for the literal strings of the model.
Trim(s) == IF s = " " THEN "" ELSE s

\* String(v) of a literal string.
StringOf(v) == CASE v.t = "str" /\ "s" \in DOMAIN v -> v.s

\* String(n).padStart(4, "0") of a whole number n >= 1.
PadStart4(n) ==
    LET k == n.n \div Unit
        digits == ToString(k)
    IN  CASE n.n % Unit = 0 /\ k >= 1 ->
              IF k < 10 THEN "000" \o digits
              ELSE IF k < 100 THEN "00" \o digits
              ELSE IF k < 1000 THEN "0" \o digits
              ELSE digits

\* Lines 317-321 and 350-352: the counter value used and the number built.
nextNumber(a) == MathMax1(toNumber(Get(Settings(a), "nextInvoiceNumber")))

invoicePrefixOf(a) ==
    LET p == Trim(StringOf(Or(Get(Settings(a), "invoicePrefix"), Str("INV"))))
    IN  IF p = "" THEN "INV" ELSE p

invoiceNumberOf(a) == Str(invoicePrefixOf(a) \o "-" \o PadStart4(nextNumber(a)))

\* addDaysISO(todayISO(), toNumber(a.settings.defaultDueDays) || 14)
newDueDate(a) ==
    addDaysISO(todayISO(today),
               Or(toNumber(Get(Settings(a), "defaultDueDays")), Whole(14)), tz)

withNewInvoice_counter_kept(a, inv) == With(a, "invoices", Arr(<<inv>> \o Invoices(a)))

\* { ...a, settings: { ...a.settings, nextInvoiceNumber: n + 1 }, invoices }
withNewInvoice(a, inv) ==
    With(With(a, "settings",
              With(Settings(a), "nextInvoiceNumber", JsAdd(nextNumber(a), Whole(1)))),
         "invoices", Arr(<<inv>> \o Invoices(a)))

\* The first element with the id: Array.prototype.find, undefined if none.
FindById(seq, id) ==
    IF \E i \in DOMAIN seq : Get(seq[i], "id") = id
    THEN seq[CHOOSE i \in DOMAIN seq :
                /\ Get(seq[i], "id") = id
                /\ \A j \in 1..(i - 1) : Get(seq[j], "id") # id]
    ELSE Undefined

\* activeInvoice of lines 195-198.
activeInvoiceOf(a, id) == Or(FindById(Invoices(a), id), Null)

\* An item of the draft InvoiceModal starts from (lines 1014-1018).
draftItem(it) ==
    Obj(Merge(OwnProps(it),
              [qty |-> Or(toNumber(Get(it, "qty")), Num(0)),
               unitPrice |-> Or(toNumber(Get(it, "unitPrice")), Num(0))]))

\* The draft InvoiceModal starts from (lines 1011-1019).
initialDraft(invoice, defaultVat) ==
    Obj(Merge(OwnProps(invoice),
              [vatRate |-> Or(toNumber(Get(invoice, "vatRate")), toNumber(defaultVat)),
               items |-> Arr([i \in DOMAIN ItemsOf(invoice) |->
                                draftItem(ItemsOf(invoice)[i])])]))

NoDraft == Null

\* createInvoice, lines 315-344; the modal it opens mounts with the new
\* invoice.  The editor is opened only while no import awaits its text: an
\* import that finishes under an open editor takes the selected invoice
\* away from the mounted InvoiceModal, which this model leaves out.
CreateInvoice ==
    /\ NoOverlay
    /\ pendingImport = NoFile
    /\ steps < MaxSteps
    /\ \E inv \in {Obj([id |-> UidStr(uidc + 1),
                       invoiceNumber |-> invoiceNumberOf(app),
                       issueDate |-> todayISO(today),
                       dueDate |-> newDueDate(app),
                       clientId |-> Str(""),
                       status |-> Str("Draft"),
                       vatRate |-> toNumber(Get(Settings(app), "defaultVatRate")),
                       items |-> Arr(<<blankItem(uidc + 1)>>),
                       notes |-> Str("")])} :
           /\ app' = withNewInvoice(app, inv)
           /\ activeInvoiceId' = Get(inv, "id")
           /\ invoiceModalOpen' = TRUE
           /\ draft' = initialDraft(inv, Get(Settings(app'), "defaultVatRate"))
           /\ last' = [op |-> "createInvoice", id |-> Get(inv, "id")]
           /\ hist' = [hist EXCEPT !.assigned = @ \cup {Get(inv, "invoiceNumber")}]
    /\ uidc' = uidc + 2
    /\ steps' = steps + 1
    /\ raised' = <<>>
    /\ UNCHANGED <<toast, pendingImport, today, tz, ticks>>
    /\ UNCHANGED fnVars
    /\ UNCHANGED uiVars
    /\ Autosaved

\* The copy of lines 354-362.
copyOf(a, src, uid) ==
    Obj(Merge(OwnProps(src),
              [id |-> UidStr(uid + 1),
               invoiceNumber |-> invoiceNumberOf(a),
               status |-> Str("Draft"),
               issueDate |-> todayISO(today),
               dueDate |-> newDueDate(a),
               items |-> Arr([i \in DOMAIN ItemsOf(src) |->
                                With(ItemsOf(src)[i], "id", UidStr(uid + 1 + i))])]))

\* duplicateInvoice(id), lines 346-371, from the Duplicate button of a row.
DuplicateInvoice ==
    /\ NoOverlay
    /\ steps < MaxSteps
    /\ steps' = steps + 1
    /\ \E k \in DOMAIN Invoices(app) :
       \E id \in {Get(Invoices(app)[k], "id")} :
       \E src \in {FindById(Invoices(app), id)} :
              /\ app' = withNewInvoice(app, copyOf(app, src, uidc))
              /\ uidc' = uidc + 1 + Len(ItemsOf(src))
              /\ last' = [op |-> "duplicateInvoice", id |-> id]
              /\ hist' = [hist EXCEPT !.assigned = @ \cup {invoiceNumberOf(app)}]
    /\ Notified("Duplicated")
    /\ UNCHANGED <<activeInvoiceId, pendingImport, today, tz, ticks>>
    /\ UNCHANGED modalVars
    /\ UNCHANGED fnVars
    /\ UNCHANGED uiVars
    /\ Autosaved

RemoveById_first_only(seq, id) ==
    IF \E i \in DOMAIN seq : Get(seq[i], "id") = id
    THEN LET k == CHOOSE i \in DOMAIN seq :
                     /\ Get(seq[i], "id") = id
                     /\ \A j \in 1..(i - 1) : Get(seq[j], "id") # id
         IN  SubSeq(seq, 1, k - 1) \o SubSeq(seq, k + 1, Len(seq))
    ELSE seq

\* seq.filter((x) => x.id !== id)
RemoveById(seq, id) == SelectSeq(seq, LAMBDA x : Get(x, "id") # id)

selectionAfterDelete_kept(active, id) == active

\* if (activeInvoiceId === id) setActiveInvoiceId(null) of line 377.
selectionAfterDelete(active, id) == IF active = id THEN Null ELSE active

\* deleteInvoice(id), lines 373-379, from the Delete button of a row, with
\* the answer ok to window.confirm.
DeleteInvoice ==
    /\ NoOverlay
    /\ \E k \in DOMAIN Invoices(app), ok \in BOOLEAN :
       \E id \in {Get(Invoices(app)[k], "id")} :
              /\ last' = [op |-> "deleteInvoice", id |-> id, ok |-> ok]
              /\ IF ok
                 THEN /\ app' = With(app, "invoices", Arr(RemoveById(Invoices(app), id)))
                      /\ activeInvoiceId' = selectionAfterDelete(activeInvoiceId, id)
                      /\ Notified("Deleted")
                 ELSE /\ raised' = <<>>
                      /\ UNCHANGED <<app, activeInvoiceId, toast>>
    /\ UNCHANGED <<pendingImport, today, tz, uidc, ticks, steps>>
    /\ UNCHANGED modalVars
    /\ UNCHANGED fnVars
    /\ UNCHANGED <<uiVars, hist>>
    /\ Autosaved

upsertInvoice_inserts(a, patch) ==
    With(a, "invoices",
         Arr(IF \E i \in DOMAIN Invoices(a) : Get(Invoices(a)[i], "id") = Get(patch, "id")
             THEN [i \in DOMAIN Invoices(a) |->
                     IF Get(Invoices(a)[i], "id") = Get(patch, "id")
                     THEN Obj(Merge(OwnProps(Invoices(a)[i]), OwnProps(patch)))
                     ELSE Invoices(a)[i]]
             ELSE <<patch>> \o Invoices(a)))

\* upsertInvoice(patch), lines 381-386.
upsertInvoice(a, patch) ==
    With(a, "invoices",
         Arr([i \in DOMAIN Invoices(a) |->
                IF Get(Invoices(a)[i], "id") = Get(patch, "id")
                THEN Obj(Merge(OwnProps(Invoices(a)[i]), OwnProps(patch)))
                ELSE Invoices(a)[i]]))

\* The status select of a row: upsertInvoice({ id, status }).
SetStatus ==
    /\ NoOverlay
    /\ steps < MaxSteps
    /\ \E k \in DOMAIN Invoices(app), st \in STATUS :
       \E id \in {Get(Invoices(app)[k], "id")} :
              /\ Get(Invoices(app)[k], "status") # Str(st)
              /\ app' = upsertInvoice(app, Obj([id |-> id, status |-> Str(st)]))
              /\ last' = [op |-> "setStatus", id |-> id]
    /\ steps' = steps + 1
    /\ raised' = <<>>
    /\ UNCHANGED <<activeInvoiceId, toast, pendingImport, today, tz, uidc, ticks>>
    /\ UNCHANGED modalVars
    /\ UNCHANGED fnVars
    /\ UNCHANGED <<uiVars, hist>>
    /\ Autosaved

\* The Edit button of a row (line 695): select the invoice and mount the
\* editor on it (while no import awaits its text, as for createInvoice).
OpenInvoice ==
    /\ NoOverlay
    /\ pendingImport = NoFile
    /\ \E k \in DOMAIN Invoices(app) :
       \E id \in {Get(Invoices(app)[k], "id")} :
              /\ activeInvoiceId' = id
              /\ draft' = initialDraft(activeInvoiceOf(app, id),
                                       Get(Settings(app), "defaultVatRate"))
              /\ last' = [op |-> "openInvoice", id |-> id]
    /\ invoiceModalOpen' = TRUE
    /\ raised' = <<>>
    /\ UNCHANGED <<app, toast, pendingImport, today, tz, uidc, ticks, steps>>
    /\ UNCHANGED fnVars
    /\ UNCHANGED <<uiVars, hist>>
    /\ Autosaved

\* A click on the number of a row (line 661): select the invoice.
SelectInvoice ==
    /\ NoOverlay
    /\ \E k \in DOMAIN Invoices(app) :
       \E id \in {Get(Invoices(app)[k], "id")} :
              /\ activeInvoiceId' = id
              /\ last' = [op |-> "selectInvoice", id |-> id]
    /\ raised' = <<>>
    /\ UNCHANGED <<app, toast, pendingImport, today, tz, uidc, ticks, steps>>
    /\ UNCHANGED modalVars
    /\ UNCHANGED fnVars
    /\ UNCHANGED <<uiVars, hist>>
    /\ Autosaved

\* Values the inputs of the editor hand to their onChange.
RateTexts == {Str("0"), Str("7")}
QtyTexts == {Str("2"), Str("")}
PriceTexts == {Str("3")}

\* setItem(id, patch), lines 1036-1041.
setItem(d, id, patch) ==
    With(d, "items",
         Arr([i \in DOMAIN ItemsOf(d) |->
                IF Get(ItemsOf(d)[i], "id") = id
                THEN Obj(Merge(OwnProps(ItemsOf(d)[i]), patch))
                ELSE ItemsOf(d)[i]]))

\* One onChange of the editor: the client select, the status select, the
\* VAT input, the quantity or price input of a line, a date input that is
\* cleared (lines 1057-1072), or the Remove button of a line (delItem,
\* lines 1049-1050).
EditDraft ==
    /\ invoiceModalOpen
    /\ steps < MaxSteps
    /\ \/ \E k \in {"issueDate", "dueDate"} : draft' = With(draft, k, Str(""))
       \/ \E i \in DOMAIN ItemsOf(draft) :
             draft' = With(draft, "items",
                           Arr(RemoveById(ItemsOf(draft), Get(ItemsOf(draft)[i], "id"))))
       \/ \E c \in {Get(Clients(app)[i], "id") : i \in DOMAIN Clients(app)} \cup {Str("")} :
             draft' = With(draft, "clientId", c)
       \/ \E st \in STATUS : draft' = With(draft, "status", Str(st))
       \/ \E v \in RateTexts : draft' = With(draft, "vatRate", v)
       \/ \E i \in DOMAIN ItemsOf(draft), v \in QtyTexts :
             draft' = setItem(draft, Get(ItemsOf(draft)[i], "id"), [qty |-> v])
       \/ \E i \in DOMAIN ItemsOf(draft), v \in PriceTexts :
             draft' = setItem(draft, Get(ItemsOf(draft)[i], "id"), [unitPrice |-> v])
    /\ steps' = steps + 1
    /\ last' = [op |-> "editDraft"]
    /\ raised' = <<>>
    /\ UNCHANGED <<app, activeInvoiceId, toast, pendingImport, invoiceModalOpen,
                   today, tz, uidc, ticks>>
    /\ UNCHANGED fnVars
    /\ UNCHANGED <<uiVars, hist>>
    /\ Autosaved

\* What Save hands to onSave (lines 1234-1241).
savedDraft(d) ==
    Obj(Merge(OwnProps(d),
              [vatRate |-> toNumber(Get(d, "vatRate")),
               items |-> Arr([i \in DOMAIN ItemsOf(d) |->
                                Obj(Merge(OwnProps(ItemsOf(d)[i]),
                                          [qty |-> toNumber(Get(ItemsOf(d)[i], "qty")),
                                           unitPrice |->
                                               toNumber(Get(ItemsOf(d)[i], "unitPrice"))]))])]))

\* Save of the editor: onSave of lines 774-778.
SaveInvoice ==
    /\ invoiceModalOpen
    /\ app' = upsertInvoice(app, savedDraft(draft))
    /\ invoiceModalOpen' = FALSE
    /\ draft' = NoDraft
    /\ Notified("Saved")
    /\ last' = [op |-> "saveInvoice", id |-> Get(draft, "id")]
    /\ UNCHANGED <<activeInvoiceId, pendingImport, today, tz, uidc, ticks, steps>>
    /\ UNCHANGED fnVars
    /\ UNCHANGED <<uiVars, hist>>
    /\ Autosaved

\* Cancel, or a click outside the editor: onClose.
CloseInvoiceModal ==
    /\ invoiceModalOpen
    /\ invoiceModalOpen' = FALSE
    /\ draft' = NoDraft
    /\ last' = [op |-> "closeInvoiceModal"]
    /\ raised' = <<>>
    /\ UNCHANGED <<app, activeInvoiceId, toast, pendingImport, today, tz, uidc, ticks,
                   steps>>
    /\ UNCHANGED fnVars
    /\ UNCHANGED <<uiVars, hist>>
    /\ Autosaved

---------------------------------------------------------------------------
(* Clients *)

\* Names typed into the client editor.
ClientNames == {"Acme"}

\* upsertClient(client), lines 388-396.
upsertClient(a, client) ==
    LET list == Clients(a)
        id == Get(client, "id")
    IN  With(a, "clients",
             Arr(IF \E i \in DOMAIN list : Get(list[i], "id") = id
                 THEN LET idx == CHOOSE i \in DOMAIN list :
                                    /\ Get(list[i], "id") = id
                                    /\ \A j \in 1..(i - 1) : Get(list[j], "id") # id
                      IN  [list EXCEPT ![idx] = client]
                 ELSE <<client>> \o list))

\* "+ Client", a name, Save: ClientModal mounts on no client and draws an
\* id in its initial state and another in its effect (lines 936-960), and
\* onSave of lines 758-762 stores the draft.
SaveNewClient ==
    /\ NoOverlay
    /\ steps < MaxSteps
    /\ steps' = steps + 1
    /\ \E name \in ClientNames :
       \E c \in {Obj([id |-> UidStr(uidc + 2), name |-> Str(Trim(name)),
                      address |-> Str(""), email |-> Str(""), phone |-> Str(""),
                      contact |-> Str(""), notes |-> Str("")])} :
              /\ app' = upsertClient(app, c)
              /\ last' = [op |-> "saveClient", id |-> Get(c, "id")]
    /\ uidc' = uidc + 2
    /\ Notified("Saved")
    /\ UNCHANGED <<activeInvoiceId, pendingImport, today, tz, ticks>>
    /\ UNCHANGED modalVars
    /\ UNCHANGED fnVars
    /\ UNCHANGED <<uiVars, hist>>
    /\ Autosaved

deleteClient_cascades(a, id) ==
    With(With(a, "invoices",
              Arr(SelectSeq(Invoices(a), LAMBDA inv : Get(inv, "clientId") # id))),
         "clients", Arr(RemoveById(Clients(a), id)))

\* The update of lines 404-407.
deleteClient(a, id) ==
    With(With(a, "invoices",
              Arr([i \in DOMAIN Invoices(a) |->
                     IF Get(Invoices(a)[i], "clientId") = id
                     THEN With(Invoices(a)[i], "clientId", Str(""))
                     ELSE Invoices(a)[i]])),
         "clients", Arr(RemoveById(Clients(a), id)))

\* deleteClient(id), lines 398-410, from the Delete button of a client,
\* with the answer ok to window.confirm.
DeleteClient ==
    /\ NoOverlay
    /\ \E k \in DOMAIN Clients(app), ok \in BOOLEAN :
       \E id \in {Get(Clients(app)[k], "id")} :
              /\ last' = [op |-> "deleteClient", id |-> id, ok |-> ok]
              /\ IF ok
                 THEN /\ app' = deleteClient(app, id)
                      /\ Notified("Client deleted")
                 ELSE /\ raised' = <<>>
                      /\ UNCHANGED <<app, toast>>
    /\ UNCHANGED <<activeInvoiceId, pendingImport, today, tz, uidc, ticks, steps>>
    /\ UNCHANGED modalVars
    /\ UNCHANGED fnVars
    /\ UNCHANGED <<uiVars, hist>>
    /\ Autosaved

---------------------------------------------------------------------------
(* Settings *)

\* Values the number inputs of the settings panel hand to onChange.
NextNumberTexts == {Str(""), Str("3"), Str("-5")}
VatTexts == {Str("0"), Str("7")}
DueDaysTexts == {Str("0"), Str("3")}

\* Values the prefix input hands to onChange.
PrefixTexts == {Str(" "), Str("RE")}

withSetting(a, key, value) == With(a, "settings", With(Settings(a), key, value))

settingsEdit(text) ==
    /\ NoOverlay
    /\ steps < MaxSteps
    /\ steps' = steps + 1
    /\ raised' = <<>>
    /\ hist' = [hist EXCEPT !.settings = TRUE]
    /\ UNCHANGED <<activeInvoiceId, toast, pendingImport, today, tz, uidc, ticks>>
    /\ UNCHANGED modalVars
    /\ UNCHANGED fnVars
    /\ UNCHANGED uiVars

\* toNumber(e.target.value) || 1 of line 832.
nextInvoiceNumberOfInput(text) == Or(toNumber(text), Whole(1))

\* Line 832.
SetNextInvoiceNumber ==
    \E text \in NextNumberTexts :
       /\ settingsEdit(text)
       /\ app' = withSetting(app, "nextInvoiceNumber", nextInvoiceNumberOfInput(text))
       /\ last' = [op |-> "setNextInvoiceNumber"]
       /\ Autosaved

\* Line 841.
SetDefaultVatRate ==
    \E text \in VatTexts :
       /\ settingsEdit(text)
       /\ app' = withSetting(app, "defaultVatRate", toNumber(text))
       /\ last' = [op |-> "setDefaultVatRate"]
       /\ Autosaved

\* Line 850.
SetDefaultDueDays ==
    \E text \in DueDaysTexts :
       /\ settingsEdit(text)
       /\ app' = withSetting(app, "defaultDueDays", Or(toNumber(text), Whole(14)))
       /\ last' = [op |-> "setDefaultDueDays"]
       /\ Autosaved

\* Line 823.
SetInvoicePrefix ==
    \E text \in PrefixTexts :
       /\ settingsEdit(text)
       /\ app' = withSetting(app, "invoicePrefix", text)
       /\ last' = [op |-> "setInvoicePrefix"]
       /\ Autosaved

---------------------------------------------------------------------------
(* CSV export *)

\* n.toFixed(2) and String(n): the text of a finite number of the small
\* scale with two decimals (fixed) and its shortest text (num).  A
\* number beyond 1e21, NaN and the infinities print alike in both.
NumStr(v) == [t |-> "str", num |-> v]
toFixed2(v) == IF v.t = "num" THEN [t |-> "str", fixed |-> v.n] ELSE NumStr(v)

csvHeader ==
    <<"invoiceNumber", "issueDate", "dueDate", "client", "status", "net", "vatRate",
      "vat", "gross", "currency">>

\* header.map((k) => vals[k]) of lines 279-292 for one invoice.  clientsById
\* (lines 189-193) holds, for an id, the last client of the list with it.
csvVals(a, inv) ==
    LET withId == {i \in DOMAIN Clients(a) :
                     Get(Clients(a)[i], "id") = Get(inv, "clientId")}
        client == IF withId = {} THEN Undefined
                  ELSE Clients(a)[CHOOSE i \in withId : \A j \in withId : j <= i]
        t == calcTotals(inv)
    IN  << Or(Get(inv, "invoiceNumber"), Str("")),
           Or(Get(inv, "issueDate"), Str("")),
           Or(Get(inv, "dueDate"), Str("")),
           Or(Get(client, "name"), Str("")),
           Or(Get(inv, "status"), Str("")),
           toFixed2(t.net),
           NumStr(t.vatRate),
           toFixed2(t.vat),
           toFixed2(t.gross),
           Or(Get(Settings(a), "currency"), Str("EUR")) >>

sortByIssueDate_unsorted(invs) == invs

\* invs.slice().sort((a, b) => String(b.issueDate || "").localeCompare(...))
\* of lines 274-276: descending, and stable.  issueKey is the place of
\* String(inv.issueDate || "") in the order of localeCompare: the empty
\* text before every date, dates by day.
RECURSIVE sortByIssueDate(_)
sortByIssueDate(invs) ==
    IF invs = <<>> THEN <<>>
    ELSE LET issueKey(inv) ==
                 CASE IsDateStr(Get(inv, "issueDate")) -> Get(inv, "issueDate").day
                   [] ~Truthy(Get(inv, "issueDate")) -> -1
             x == invs[Len(invs)]
             front == sortByIssueDate(SubSeq(invs, 1, Len(invs) - 1))
             ahead == {i \in DOMAIN front : issueKey(front[i]) >= issueKey(x)}
             k == IF ahead = {} THEN 0 ELSE CHOOSE i \in ahead : \A j \in ahead : j <= i
         IN  SubSeq(front, 1, k) \o <<x>> \o SubSeq(front, k + 1, Len(front))

\* [header, ...rows] of line 298, before esc and join.
csvRows(a) ==
    <<csvHeader>> \o [i \in DOMAIN Invoices(a) |->
                        csvVals(a, sortByIssueDate(Invoices(a))[i])]

\* exportCSV, lines 260-313, from the "Export CSV" button: the rows go to
\* the download, and the application state is read only.
ExportCSV ==
    /\ NoOverlay
    /\ fnPc = "idle"
    /\ fnOut' = <<csvRows(app)>>
    /\ fnPc' = "exported"
    /\ Notified("CSV exported")
    /\ last' = [op |-> "exportCSV"]
    /\ UNCHANGED <<app, activeInvoiceId, pendingImport, hist, today, tz, uidc, ticks,
                   steps, fnIn, fnArg>>
    /\ UNCHANGED modalVars
    /\ UNCHANGED uiVars
    /\ Autosaved

---------------------------------------------------------------------------
(* Printing *)

\* Timeouts of printInvoicePDF that may be pending at a time.
MaxPrintTimers == 1

\* What the other variables do in a step of the preview or of printing.
printFrame ==
    /\ raised' = <<>>
    /\ UNCHANGED <<app, activeInvoiceId, toast, pendingImport, toastTimer, timers, hist,
                   today, tz, uidc, ticks, steps>>
    /\ UNCHANGED modalVars
    /\ UNCHANGED fnVars
    /\ Autosaved

\* The Preview button (lines 489 and 1983), disabled without an active
\* invoice.
OpenPreview ==
    /\ NoOverlay
    /\ activeInvoiceOf(app, activeInvoiceId) # Null
    /\ previewOpen' = TRUE
    /\ last' = [op |-> "openPreview"]
    /\ UNCHANGED printTimers
    /\ printFrame

\* Close, or a click on the backdrop of the preview (lines 1933 and 1942).
ClosePreview ==
    /\ previewOpen
    /\ previewOpen' = FALSE
    /\ last' = [op |-> "closePreview"]
    /\ UNCHANGED printTimers
    /\ printFrame

\* printInvoicePDF, lines 1897-1902, up to the timeout it sets.
PrintInvoicePDF ==
    /\ NoOverlay
    /\ printTimers < MaxPrintTimers
    /\ IF activeInvoiceOf(app, activeInvoiceId) = Null
       THEN UNCHANGED <<previewOpen, printTimers>>
       ELSE /\ previewOpen' = TRUE
            /\ printTimers' = printTimers + 1
    /\ last' = [op |-> "printInvoicePDF"]
    /\ printFrame

\* The timeout of line 1901: window.print(), with the style of lines
\* 1917-1926 in the page while previewOpen, and the sheet of the active
\* invoice in the preview while there is one.
PrintTimeout ==
    /\ printTimers > 0
    /\ printTimers' = printTimers - 1
    /\ last' = [op |-> "print", preview |-> previewOpen,
                invoice |-> activeInvoiceOf(app, activeInvoiceId)]
    /\ UNCHANGED previewOpen
    /\ printFrame

---------------------------------------------------------------------------
(* Notices *)

\* Calls of notify in one run.
MaxNotifies == 4

\* The notices the handlers raise.
NotifyMessages ==
    {"Exported", "Invalid JSON", "Imported", "CSV exported", "Duplicated", "Deleted",
     "Client deleted", "Saved"}

pendingAfterNotify_not_cleared(pending, current, id) == pending \cup {id}

\* The pending hide timers after lines 168-169: clearTimeout of the timer
\* toastTimer.current names, when it names one, and the new timer.
pendingAfterNotify(pending, current, id) == (pending \ {current}) \cup {id}

\* What the other variables do in a step of a notice.
notifyFrame ==
    /\ UNCHANGED <<app, activeInvoiceId, pendingImport, previewOpen, printTimers, hist,
                   today, tz, uidc, ticks>>
    /\ UNCHANGED modalVars
    /\ UNCHANGED fnVars
    /\ Autosaved

\* notify(msg), lines 166-170, called by a handler; setTimeout returns an
\* id it has not returned before.
Notify ==
    /\ steps < MaxNotifies
    /\ steps' = steps + 1
    /\ \E msg \in NotifyMessages :
          /\ Notified(msg)
          /\ last' = [op |-> "notify", msg |-> msg, cleared |-> toastTimer \in timers]
    /\ toastTimer' = toastTimer + 1
    /\ timers' = pendingAfterNotify(timers, toastTimer, toastTimer + 1)
    /\ notifyFrame

\* A hide timer runs: setToast(null) of line 169.
HideTimeout ==
    /\ \E id \in timers :
          /\ timers' = timers \ {id}
          /\ last' = [op |-> "hideTimeout", timer |-> id]
    /\ toast' = Null
    /\ UNCHANGED <<raised, toastTimer, steps>>
    /\ notifyFrame

---------------------------------------------------------------------------
(* The clock *)

Tick ==
    /\ ticks < MaxTicks
    /\ ticks' = ticks + 1
    /\ today' = today + 1
    /\ UNCHANGED <<app, activeInvoiceId, toast, raised, pendingImport, last, tz, uidc,
                   steps>>
    /\ UNCHANGED modalVars
    /\ UNCHANGED fnVars
    /\ UNCHANGED <<uiVars, hist>>
    /\ Autosaved

---------------------------------------------------------------------------
(* The application *)

NoInput == [t |-> "none"]

\* The state after the first render with an empty store: normalizeData(null)
\* (lines 160-163).
Init ==
    /\ app = normalizeData(Null, StartDay, 0, 0).out
    /\ activeInvoiceId = Null
    /\ toast = Null
    /\ raised = <<>>
    /\ pendingImport = NoFile
    /\ invoiceModalOpen = FALSE
    /\ draft = NoDraft
    /\ stored = JsonText(Jsonable(normalizeData(Null, StartDay, 0, 0).out))
    /\ previewOpen = FALSE
    /\ printTimers = 0
    /\ toastTimer = 0
    /\ timers = {}
    /\ hist = [imported |-> FALSE, settings |-> FALSE, assigned |-> {}]
    /\ last = NoOp
    /\ today = StartDay
    /\ tz \in TimeZones
    /\ uidc = 0
    /\ ticks = 0
    /\ steps = 0
    /\ fnIn = NoInput
    /\ fnArg = NoInput
    /\ fnOut = <<>>
    /\ fnPc = "idle"

Next ==
    \/ ImportStart
    \/ ImportFinish
    \/ CreateInvoice
    \/ DuplicateInvoice
    \/ DeleteInvoice
    \/ SetStatus
    \/ OpenInvoice
    \/ EditDraft
    \/ SaveInvoice
    \/ CloseInvoiceModal
    \/ SaveNewClient
    \/ DeleteClient
    \/ SetNextInvoiceNumber
    \/ SetDefaultVatRate
    \/ SetDefaultDueDays
    \/ SetInvoicePrefix
    \/ SelectInvoice

Spec == Init /\ [][Next]_vars

\* The application with the print preview and printInvoicePDF: documents
\* are imported, an invoice is selected or deleted, previewed and printed.
NextPrint ==
    \/ ImportStart
    \/ ImportFinish
    \/ SelectInvoice
    \/ DeleteInvoice
    \/ OpenPreview
    \/ ClosePreview
    \/ PrintInvoicePDF
    \/ PrintTimeout

SpecPrint == Init /\ [][NextPrint]_vars

\* The notices and their hide timers.  A timer that is pending runs in the
\* end: the browser runs a timeout that is due and not cleared.
NextNotify ==
    \/ Notify
    \/ HideTimeout

SpecNotify == Init /\ [][NextNotify]_vars /\ WF_vars(HideTimeout)

\* The application up to one CSV export.
SpecExport == Init /\ [][(fnPc = "idle" /\ Next) \/ ExportCSV]_vars

---------------------------------------------------------------------------
(* normalizeData applied to raw documents *)

RECURSIVE SeqsUpTo(_, _)
SeqsUpTo(S, n) ==
    IF n = 0 THEN {<<>>}
    ELSE LET shorter == SeqsUpTo(S, n - 1)
         IN  shorter \cup {Append(q, x) : q \in shorter, x \in S}

rawItems ==
    { Arr(<<>>),
      Arr(<<EmptyObj>>),
      Arr(<<Null>>),
      Arr(<<Obj([id |-> Str("it1"), qty |-> Str("abc"), unitPrice |-> Str("2,0")]),
            Whole(5)>>),
      Str("text") }

\* Elements of a raw invoices array.
rawInvoices ==
    { Null, Whole(5), Str("text"), EmptyObj, Arr(<<>>),
      sampleInvoice("i1", "c1", "Sent", Whole(19)),
      Obj([id |-> Num(0), status |-> Str("paid"), vatRate |-> Str("abc"),
           notes |-> Whole(5), issueDate |-> DateStr(StartDay - 3)]),
      Obj([id |-> Whole(7), dueDate |-> DateStr(StartDay + 1), vatRate |-> Str("2,0"),
           issueDate |-> Str("soon"), status |-> Str("Overdue")]) }
    \cup {Obj([items |-> its]) : its \in rawItems}

\* Elements of a raw clients array.
rawClients ==
    { Null, Whole(5), EmptyObj, sampleClient, Obj([name |-> Str("Acme"), id |-> Num(0)]) }

rawSettings ==
    { Null, Whole(5), Arr(<<Whole(1)>>), EmptyObj,
      Obj([nextInvoiceNumber |-> Num(0)]),
      Obj([defaultDueDays |-> Str("abc"), defaultVatRate |-> Str("abc")]),
      Obj([defaultDueDays |-> Num(0), currency |-> Str("USD"), extra |-> Null]) }

\* The raw documents normalizeData is applied to.
RawDocuments ==
    { Null, Undefined, Num(0), Whole(5), Str(""), Str("text"), Bool(TRUE),
      Arr(<<>>), Arr(<<Whole(1)>>), EmptyObj, Obj([foo |-> Whole(1)]),
      Obj([invoices |-> Str("text"), clients |-> Whole(5), profile |-> Null]),
      Obj([profile |-> Obj([businessName |-> Str("Me"), extra |-> Whole(1)])]) }
    \cup {Obj([settings |-> x]) : x \in rawSettings}
    \cup {Obj([invoices |-> Arr(q)]) : q \in SeqsUpTo(rawInvoices, MaxEntries)}
    \cup {Obj([clients |-> Arr(q)]) : q \in SeqsUpTo(rawClients, MaxEntries)}
    \cup {Obj([settings |-> x, invoices |-> Arr(<<y>>), clients |-> Arr(<<z>>)]) :
            x \in rawSettings, y \in {EmptyObj, Obj([items |-> Str("text")])},
            z \in {EmptyObj}}

\* The application, idle, while a function is applied on its own.
IdleApp ==
    /\ app = normalizeData(Null, StartDay, 0, 0).out
    /\ activeInvoiceId = Null
    /\ toast = Null
    /\ raised = <<>>
    /\ pendingImport = NoFile
    /\ invoiceModalOpen = FALSE
    /\ draft = NoDraft
    /\ stored = JsonText(Jsonable(normalizeData(Null, StartDay, 0, 0).out))
    /\ previewOpen = FALSE
    /\ printTimers = 0
    /\ toastTimer = 0
    /\ timers = {}
    /\ hist = [imported |-> FALSE, settings |-> FALSE, assigned |-> {}]
    /\ last = NoOp
    /\ steps = 0

InitNormalize ==
    /\ IdleApp
    /\ today = StartDay
    /\ tz \in TimeZones
    /\ uidc = 0
    /\ ticks = 0
    /\ fnIn \in RawDocuments
    /\ fnArg = fnIn
    /\ fnOut = <<>>
    /\ fnPc = "start"

\* y = normalizeData(x)
NormalizeOnce ==
    /\ fnPc = "start"
    /\ \E r \in {normalizeData(fnArg, today, tz, uidc)} :
           /\ fnArg' = rawAfter(fnArg, r)
           /\ uidc' = r.uid
           /\ fnOut' = IF r.threw THEN fnOut ELSE <<r.out>>
           /\ fnPc' = IF r.threw THEN "threw" ELSE "once"
    /\ last' = [op |-> "normalizeData", day |-> today, tz |-> tz]
    /\ UNCHANGED <<app, activeInvoiceId, toast, raised, pendingImport, today, tz, ticks,
                   steps, fnIn>>
    /\ UNCHANGED <<modalVars, stored, hist>>
    /\ UNCHANGED uiVars

\* z = normalizeData(y)
NormalizeAgain ==
    /\ fnPc = "once"
    /\ \E r \in {normalizeData(fnOut[1], today, tz, uidc)} :
           /\ fnArg' = rawAfter(fnOut[1], r)
           /\ uidc' = r.uid
           /\ fnOut' = IF r.threw THEN fnOut ELSE Append(fnOut, r.out)
           /\ fnPc' = IF r.threw THEN "threw" ELSE "twice"
    /\ last' = [op |-> "normalizeData", day |-> last.day, tz |-> tz, again |-> today]
    /\ UNCHANGED <<app, activeInvoiceId, toast, raised, pendingImport, today, tz, ticks,
                   steps, fnIn>>
    /\ UNCHANGED <<modalVars, stored, hist>>
    /\ UNCHANGED uiVars

NextNormalize ==
    \/ NormalizeOnce
    \/ NormalizeAgain
    \/ Tick

SpecNormalize == InitNormalize /\ [][NextNormalize]_vars

---------------------------------------------------------------------------
(* calcTotals applied to invoices *)

QtyValues == {Whole(2), Whole(1), Whole(-5), Str("abc"), Str("2,0"), Str("1e200")}
PriceValues == {Whole(50), Whole(10), Whole(-5), Str("1e200")}
RateValues == {Whole(19), Num(0), Whole(7), Str("abc"), Undefined}

TotalsItems == {Obj([qty |-> q, unitPrice |-> p]) : q \in QtyValues, p \in PriceValues}

\* The invoices calcTotals is applied to.
TotalsInputs ==
    {Obj([vatRate |-> r, items |-> Arr(q)]) :
        r \in RateValues, q \in SeqsUpTo(TotalsItems, MaxEntries)}
    \cup {Obj([vatRate |-> r, items |-> x]) :
            r \in RateValues, x \in {Undefined, Null, Str("text")}}

InitTotals ==
    /\ IdleApp
    /\ today = StartDay
    /\ tz = 0
    /\ uidc = 0
    /\ ticks = 0
    /\ fnIn \in TotalsInputs
    /\ fnArg = fnIn
    /\ fnOut = <<>>
    /\ fnPc = "start"

CalcTotals ==
    /\ fnPc = "start"
    /\ fnOut' = IF calcTotalsThrows(fnIn) THEN fnOut ELSE <<calcTotals(fnIn)>>
    /\ fnPc' = IF calcTotalsThrows(fnIn) THEN "threw" ELSE "done"
    /\ last' = [op |-> "calcTotals"]
    /\ UNCHANGED <<app, activeInvoiceId, toast, raised, pendingImport, today, tz, uidc,
                   ticks, steps, fnIn, fnArg>>
    /\ UNCHANGED <<modalVars, stored, hist>>
    /\ UNCHANGED uiVars

NextTotals == CalcTotals

SpecTotals == InitTotals /\ [][NextTotals]_vars

---------------------------------------------------------------------------
(* The quoting of exportCSV applied to rows of texts *)

\* Largest length of a text of a row.
MaxLen == 2

\* The texts of up to n characters: of one that needs no quoting, the
\* comma, the double quote and the newline.
RECURSIVE TextsUpTo(_)
TextsUpTo(n) ==
    IF n = 0 THEN {""}
    ELSE TextsUpTo(n - 1)
         \cup {t \o c : t \in TextsUpTo(n - 1), c \in {"a", ",", "\"", "\n"}}

\* Rows of ten texts: two neighbours of any texts among fillers.
CsvRowsIn ==
    {[i \in 1..Len(csvHeader) |-> IF i = p THEN x ELSE IF i = p + 1 THEN y ELSE z] :
        p \in 1..(Len(csvHeader) - 1), x \in TextsUpTo(MaxLen), y \in TextsUpTo(MaxLen),
        z \in {"", "a"}}

DoubleQuotes_none(s) == s

\* s.replace(/"/g, '""')
RECURSIVE DoubleQuotes(_)
DoubleQuotes(s) ==
    IF s = "" THEN ""
    ELSE (IF Head(s) = "\"" THEN "\"\"" ELSE Head(s)) \o DoubleQuotes(Tail(s))

\* esc of lines 295-298, for a text.
esc(s) ==
    IF \E i \in 1..Len(s) : SubSeq(s, i, i) \in {"\"", ",", "\n"}
    THEN "\"" \o DoubleQuotes(s) \o "\""
    ELSE s

\* texts.join(sep)
RECURSIVE Join(_, _)
Join(texts, sep) ==
    IF texts = <<>> THEN ""
    ELSE IF Len(texts) = 1 THEN texts[1]
    ELSE texts[1] \o sep \o Join(Tail(texts), sep)

InitCsv ==
    /\ IdleApp
    /\ today = StartDay
    /\ tz = 0
    /\ uidc = 0
    /\ ticks = 0
    /\ fnIn \in CsvRowsIn
    /\ fnArg = fnIn
    /\ fnOut = <<>>
    /\ fnPc = "start"

\* r.map(esc).join(",") of line 298 for one row.
EscRow ==
    /\ fnPc = "start"
    /\ fnOut' = <<Join([i \in DOMAIN fnIn |-> esc(fnIn[i])], ",")>>
    /\ fnPc' = "done"
    /\ last' = [op |-> "esc"]
    /\ UNCHANGED <<app, activeInvoiceId, toast, raised, pendingImport, today, tz, uidc,
                   ticks, steps, fnIn, fnArg>>
    /\ UNCHANGED <<modalVars, stored, hist>>
    /\ UNCHANGED uiVars

SpecCsv == InitCsv /\ [][EscRow]_vars

---------------------------------------------------------------------------
(* Claims about normalizeData, under SpecNormalize *)

\* The raw document { invoices: [ {} ] }.
OneEmptyInvoice == Obj([invoices |-> Arr(<<EmptyObj>>)])

\* C1: normalize is idempotent.  Whenever normalizeData returned a state y
\* for a raw document, normalizeData(y) returns as well, and the state it
\* returns equals y in every field, id, date and collection, whatever the
\* clock and the id generator did between the two applications.
C1_Idempotent ==
    /\ fnPc = "threw" => fnOut = <<>>
    /\ fnPc = "twice" => fnOut[2] = fnOut[1]

\* C1 happens: { invoices: [ {} ] }, which has no id and no date, was
\* normalised on one day and the result normalised again on a later day,
\* and the invoice kept the date and the id of the first day.
C1_Witness ==
    /\ fnPc = "twice"
    /\ fnIn = OneEmptyInvoice
    /\ last.again > last.day
    /\ Len(Invoices(fnOut[2])) = 1
    /\ Get(Invoices(fnOut[2])[1], "issueDate") = DateStr(last.day)
    /\ Get(Invoices(fnOut[2])[1], "id") = UidStr(1)

\* C2: normalize is total.  normalizeData throws for no raw document, the
\* documents whose invoices, clients or items arrays hold null included.
C2_NeverThrows == fnPc # "threw"

\* C3: normalize({ invoices: [ {} ] }) yields exactly one invoice, with
\* status Draft, the tax rate of the settings' default tax rate, exactly
\* one line item of quantity 1 and price 0, the current date as issue date
\* and the issue date plus the settings' default due-days as due date.
C3_DefaultRepair ==
    (fnPc = "once" /\ fnIn = OneEmptyInvoice) =>
        LET invs == Invoices(fnOut[1])
            inv == invs[1]
            settings == Settings(fnOut[1])
        IN  /\ Len(invs) = 1
            /\ Get(inv, "status") = Str("Draft")
            /\ Get(inv, "vatRate") = Get(settings, "defaultVatRate")
            /\ Len(ItemsOf(inv)) = 1
            /\ Get(ItemsOf(inv)[1], "qty") = Whole(1)
            /\ Get(ItemsOf(inv)[1], "unitPrice") = Num(0)
            /\ Get(inv, "issueDate") = DateStr(last.day)
            /\ Get(inv, "dueDate") =
                   DateStr(last.day + Get(settings, "defaultDueDays").n \div Unit)

---------------------------------------------------------------------------
(* Claims about calcTotals, under SpecTotals *)

\* The invoice of the example: VAT 19, 2 x 50 and 1 x 10.
ExampleInvoice ==
    Obj([vatRate |-> Whole(19),
         items |-> Arr(<<Obj([qty |-> Whole(2), unitPrice |-> Whole(50)]),
                         Obj([qty |-> Whole(1), unitPrice |-> Whole(10)])>>)])

\* The tax rate and every quantity and price of the invoice is a number of
\* the small scale.
AllNumbers(inv) ==
    /\ Get(inv, "vatRate").t = "num"
    /\ \A i \in DOMAIN ItemsOf(inv) :
          /\ Get(ItemsOf(inv)[i], "qty").t = "num"
          /\ Get(ItemsOf(inv)[i], "unitPrice").t = "num"

\* The sum of quantity x price over the items, in units of Unit * Unit.
RECURSIVE SumOfProducts(_)
SumOfProducts(items) ==
    IF items = <<>> THEN 0
    ELSE Get(items[Len(items)], "qty").n * Get(items[Len(items)], "unitPrice").n
         + SumOfProducts(SubSeq(items, 1, Len(items) - 1))

\* C4: for an invoice of numbers, totals returns net = the sum over all
\* line items of quantity x unit price, taxRate = the invoice's tax rate,
\* tax = net x taxRate / 100 and gross = net + tax, unrounded and with the
\* signs the quantities and prices have; an empty item list, or one that
\* is no array, gives net = 0, tax = 0 and gross = 0.
C4_TotalsArithmetic ==
    fnPc = "done" =>
        LET t == fnOut[1]
        IN  /\ AllNumbers(fnIn) =>
                  /\ t.net.t = "num" /\ t.vat.t = "num" /\ t.gross.t = "num"
                  /\ t.net.n * Unit = SumOfProducts(ItemsOf(fnIn))
                  /\ t.vatRate = Get(fnIn, "vatRate")
                  /\ t.vat.n * 100 * Unit = t.net.n * t.vatRate.n
                  /\ t.gross.n = t.net.n + t.vat.n
            /\ (~IsArray(Get(fnIn, "items")) \/ ItemsOf(fnIn) = <<>>) =>
                  /\ t.net = Num(0)
                  /\ t.vat = Num(0)
                  /\ t.gross = Num(0)

\* C4 happens: the totals of the example are net 110, tax 20.9, gross 130.9.
C4_Witness ==
    /\ fnPc = "done"
    /\ fnIn = ExampleInvoice
    /\ fnOut[1].net = Whole(110)
    /\ fnOut[1].vat = Num(2090)
    /\ fnOut[1].gross = Num(13090)

\* The value is no number the text of a number spells.
Unparseable(v) == v = Str("abc")

\* C5: in totals, a line item whose quantity or unit price does not parse
\* as a finite number contributes exactly 0 to net, an unparseable tax rate
\* counts as 0, and net, tax and gross are NaN for no invoice.
C5_NeverNaN ==
    fnPc = "done" =>
        LET t == fnOut[1]
        IN  /\ t.net # NaN /\ t.vat # NaN /\ t.gross # NaN
            /\ Unparseable(Get(fnIn, "vatRate")) => t.vatRate = Num(0)
            /\ (Len(ItemsOf(fnIn)) = 1 /\ Unparseable(Get(ItemsOf(fnIn)[1], "qty"))) =>
                  t.net = Num(0)

---------------------------------------------------------------------------
(* Claims about the application, under Spec *)

\* C6: after a confirmed deleteClient(id) the client is gone and the other
\* clients stay as they are and in their order; every invoice that referred
\* to the client has an empty client reference and is otherwise unchanged,
\* every other invoice is unchanged, and the invoices are as many and in
\* the same order as before.
C6_DeleteClientKeepsInvoices ==
    [][ (last'.op = "deleteClient" /\ last'.ok) =>
            /\ \A i \in DOMAIN Clients(app') : Get(Clients(app')[i], "id") # last'.id
            /\ Clients(app') = SelectSeq(Clients(app), LAMBDA c : Get(c, "id") # last'.id)
            /\ Len(Invoices(app')) = Len(Invoices(app))
            /\ \A i \in DOMAIN Invoices(app) :
                  IF Get(Invoices(app)[i], "clientId") = last'.id
                  THEN /\ Get(Invoices(app')[i], "clientId") = Str("")
                       /\ DOMAIN Invoices(app')[i].o = DOMAIN Invoices(app)[i].o
                       /\ \A k \in DOMAIN Invoices(app)[i].o \ {"clientId"} :
                             Invoices(app')[i].o[k] = Invoices(app)[i].o[k]
                  ELSE Invoices(app')[i] = Invoices(app)[i]
      ]_vars

\* C6 happens: client c1 of the imported sample was deleted; invoice i1,
\* which referred to it, is still the first of two invoices, with an empty
\* client reference and its number, status and items.
C6_Witness ==
    /\ last.op = "deleteClient" /\ last.ok /\ last.id = Str("c1")
    /\ Clients(app) = <<>>
    /\ Len(Invoices(app)) = 2
    /\ Invoices(app)[1] = With(sampleInvoice("i1", "c1", "Sent", Whole(19)), "clientId", Str(""))
    /\ Invoices(app)[2] = sampleInvoice("i2", "", "Paid", Num(0))

\* The keys an import looks for.
ImportKeys == {"clients", "invoices", "settings"}

\* The file does not parse, or parses to something that is no object, or to
\* an object with none of the keys.
Unrecognised(f) ==
    \/ f.file = "garbage"
    \/ f.value.t # "obj"
    \/ DOMAIN f.value.o \cap ImportKeys = {}

\* The file is the JSON text of an object with at least one of the keys.
Recognised(f) ==
    /\ f.file = "json"
    /\ f.value.t = "obj"
    /\ DOMAIN f.value.o \cap ImportKeys # {}

\* C7: the import of a document that does not parse, whose parsed value is
\* no object, or that has none of the keys clients, invoices, settings
\* leaves the application state and the selected invoice as they are and
\* raises exactly one notice, the failure notice.
C7_ImportRejection ==
    [][ (pendingImport # NoFile /\ pendingImport' = NoFile /\ Unrecognised(pendingImport)) =>
            /\ app' = app
            /\ activeInvoiceId' = activeInvoiceId
            /\ raised' = <<"Invalid JSON">>
            /\ toast' = Str("Invalid JSON")
      ]_vars

\* C7 happens: { "foo": 1 } was imported while an invoice was selected; the
\* invoice is still there and selected, and the failure notice shows.
C7_Witness ==
    /\ last.op = "import"
    /\ last.file = JsonText(Obj([foo |-> Whole(1)]))
    /\ last.outcome = "refused"
    /\ activeInvoiceId # Null
    /\ Len(Invoices(app)) = 1
    /\ Get(Invoices(app)[1], "id") = activeInvoiceId
    /\ raised = <<"Invalid JSON">>

\* C8: the import of any JSON object that has at least one of the keys
\* clients, invoices or settings, whatever value the key holds, is accepted:
\* the state is the normalised document and nothing else, and no invoice is
\* selected.
C8_ImportAccepts ==
    (last.op = "import" /\ Recognised(last.file)) =>
        /\ last.outcome = "replaced"
        /\ \E u \in 0..uidc : app = normalizeData(last.file.value, today, tz, u).out
        /\ activeInvoiceId = Null

\* C9: every import ends in one of two ways: the state was replaced by a
\* normalised state and the success notice raised, or the import was
\* refused with the failure notice; none ends with an exception or without
\* a notice.
C9_ImportOutcomes ==
    last.op = "import" =>
        \/ /\ last.outcome = "replaced"
           /\ raised = <<"Imported">>
        \/ /\ last.outcome = "refused"
           /\ raised = <<"Invalid JSON">>

\* C10: in every reachable state settings.nextInvoiceNumber is a number
\* greater than or equal to 1.
C10_NextNumberAtLeastOne ==
    /\ Get(Settings(app), "nextInvoiceNumber").t = "num"
    /\ Get(Settings(app), "nextInvoiceNumber").n >= Unit

---------------------------------------------------------------------------
(* Claims about the fields normalizeData repairs, under SpecNormalize *)

\* Every numeric field of the state is a finite number.
NumericFieldsFinite(a) ==
    /\ \A k \in {"defaultVatRate", "nextInvoiceNumber", "defaultDueDays"} :
          IsFinite(Get(Settings(a), k))
    /\ \A i \in DOMAIN Invoices(a) :
          /\ IsFinite(Get(Invoices(a)[i], "vatRate"))
          /\ \A j \in DOMAIN ItemsOf(Invoices(a)[i]) :
                /\ IsFinite(Get(ItemsOf(Invoices(a)[i])[j], "qty"))
                /\ IsFinite(Get(ItemsOf(Invoices(a)[i])[j], "unitPrice"))

\* C11: after normalize of any object-shaped document every numeric field
\* of the state -- the default tax rate, the next invoice number and the
\* default due-days of the settings, the tax rate of each invoice, the
\* quantity and unit price of each line item -- is a finite number, never
\* NaN, undefined, null or a string.
C11_NumericFieldsFinite ==
    (fnPc = "once" /\ IsObjectLike(fnIn)) => NumericFieldsFinite(fnOut[1])

\* The value is there and parses as a finite number.
ParsesFinite(v) == ~IsNullish(v) /\ IsFinite(ParseNumber(v))

\* C12: normalization replaces a field that is missing or does not parse as
\* a finite number by its documented default, not by 0: the tax rate of an
\* invoice by the default tax rate of the settings, the quantity of a line
\* item by 1 and its unit price by 0.
C12_DocumentedDefaults ==
    (fnPc = "once" /\ IsObjectLike(fnIn)) =>
        \A i \in DOMAIN Invoices(fnIn) :
            LET raw == Invoices(fnIn)[i]
                out == Invoices(fnOut[1])[i]
            IN  /\ ~ParsesFinite(Get(raw, "vatRate")) =>
                       Get(out, "vatRate") = Get(Settings(fnOut[1]), "defaultVatRate")
                /\ \A j \in DOMAIN ItemsOf(raw) :
                       /\ ~ParsesFinite(Get(ItemsOf(raw)[j], "qty")) =>
                              Get(ItemsOf(out)[j], "qty") = Whole(1)
                       /\ ~ParsesFinite(Get(ItemsOf(raw)[j], "unitPrice")) =>
                              Get(ItemsOf(out)[j], "unitPrice") = Num(0)

\* C14: normalize is pure: the raw document it was given is after the call
\* what it was before it, settings, profile, clients and invoices included.
C14_RawUntouched == fnPc = "once" => fnArg = fnIn

---------------------------------------------------------------------------
(* Claims about invoices and the counter, under Spec *)

StatusValues == {Str(st) : st \in STATUS}

\* C13: in every reachable state the status of every invoice is one of
\* Draft, Sent, Paid, Overdue; the normalisation of an imported document
\* keeps a status that is one of the four and makes any other Draft.
C13_StatusInEnum ==
    /\ \A i \in DOMAIN Invoices(app) : Get(Invoices(app)[i], "status") \in StatusValues
    /\ (last.op = "import" /\ last.outcome = "replaced") =>
          \A i \in DOMAIN Invoices(last.file.value) :
              Get(Invoices(app)[i], "status") =
                  IF Get(Invoices(last.file.value)[i], "status") \in StatusValues
                  THEN Get(Invoices(last.file.value)[i], "status")
                  ELSE Str("Draft")

\* C13 happens: the import of a document with the statuses "paid" and Sent
\* left an invoice that is Draft and one that is Sent.
C13_Witness ==
    /\ last.op = "import" /\ last.outcome = "replaced"
    /\ last.file = JsonText(legacyDocument)
    /\ Get(Invoices(app)[1], "status") = Str("Draft")
    /\ Get(Invoices(app)[2], "status") = Str("Sent")

\* No two elements of the list have the same id.
DistinctIds(seq) ==
    \A i, j \in DOMAIN seq : i # j => Get(seq[i], "id") # Get(seq[j], "id")

\* C15: in every reachable state the ids of the invoices are pairwise
\* distinct, the ids of the clients are pairwise distinct and the ids of
\* the line items of an invoice are pairwise distinct (the id generator
\* returns no value twice).
C15_IdsDistinct ==
    /\ DistinctIds(Invoices(app))
    /\ DistinctIds(Clients(app))
    /\ \A i \in DOMAIN Invoices(app) : DistinctIds(ItemsOf(Invoices(app)[i]))

\* settings.nextInvoiceNumber
Counter(a) == Get(Settings(a), "nextInvoiceNumber")

\* The list new is the list old with one element put in front.
OneAddedInFront(new, old) ==
    /\ Len(new) = Len(old) + 1
    /\ \A i \in DOMAIN old : new[i + 1] = old[i]

\* The id is the id of no element of the list.
FreshIn(id, seq) == \A i \in DOMAIN seq : Get(seq[i], "id") # id

\* The copy, the first invoice of the state a2, is a duplicate of src made
\* in the state a: a fresh id, status Draft, the client reference, tax rate
\* and notes of src, and its items with fresh ids.
DuplicateOf(a2, a, src) ==
    LET copy == Invoices(a2)[1]
    IN  /\ OneAddedInFront(Invoices(a2), Invoices(a))
        /\ FreshIn(Get(copy, "id"), Invoices(a))
        /\ Get(copy, "status") = Str("Draft")
        /\ Get(copy, "clientId") = Get(src, "clientId")
        /\ Get(copy, "vatRate") = Get(src, "vatRate")
        /\ Get(copy, "notes") = Get(src, "notes")
        /\ Len(ItemsOf(copy)) = Len(ItemsOf(src))
        /\ DistinctIds(ItemsOf(copy))
        /\ \A j \in DOMAIN ItemsOf(src) :
              /\ FreshIn(Get(ItemsOf(copy)[j], "id"), ItemsOf(src))
              /\ With(ItemsOf(copy)[j], "id", Null) = With(ItemsOf(src)[j], "id", Null)
        /\ Clients(a2) = Clients(a)

\* C16: duplicateInvoice(id) of an invoice of the state puts exactly one
\* invoice in front of the list, with a fresh id, a number assigned from
\* the sequence, status Draft, the items of the source with fresh ids and
\* the client reference, tax rate and notes of the source; the source and
\* every other invoice stay as they are and nextInvoiceNumber grows by one.
C16_DuplicateInvoice ==
    [][ last'.op = "duplicateInvoice" =>
            /\ DuplicateOf(app', app, FindById(Invoices(app), last'.id))
            /\ Get(Invoices(app')[1], "invoiceNumber") # Str("")
            /\ Counter(app).t = "num" /\ Counter(app').t = "num"
            /\ Counter(app').n = Counter(app).n + Unit
      ]_vars

\* C17: createInvoice puts exactly one invoice in front of the list, with
\* a fresh id, the number built from the trimmed prefix (INV when blank)
\* and the counter value max(1, nextInvoiceNumber) padded to four digits,
\* status Draft, no client, the default tax rate of the settings and one
\* blank line item of quantity 1 and price 0; it sets nextInvoiceNumber to
\* that counter value plus one, selects the new invoice and leaves the
\* clients, the profile and the invoices there were as they are.
C17_CreateInvoice ==
    [][ last'.op = "createInvoice" =>
            LET new == Invoices(app')[1]
                n == IF Counter(app).t = "num" /\ Counter(app).n > Unit
                     THEN Counter(app) ELSE Whole(1)
            IN  /\ OneAddedInFront(Invoices(app'), Invoices(app))
                /\ FreshIn(Get(new, "id"), Invoices(app))
                /\ Get(new, "invoiceNumber") =
                       Str(invoicePrefixOf(app) \o "-" \o PadStart4(n))
                /\ Get(new, "status") = Str("Draft")
                /\ Get(new, "clientId") = Str("")
                /\ Get(new, "vatRate") = Get(Settings(app), "defaultVatRate")
                /\ Len(ItemsOf(new)) = 1
                /\ Get(ItemsOf(new)[1], "qty") = Whole(1)
                /\ Get(ItemsOf(new)[1], "unitPrice") = Num(0)
                /\ Counter(app') = Num(n.n + Unit)
                /\ activeInvoiceId' = Get(new, "id")
                /\ Clients(app') = Clients(app)
                /\ Get(app', "profile") = Get(app, "profile")
      ]_vars

\* C18: an invoice that createInvoice or duplicateInvoice made has today as
\* issue date and today plus settings.defaultDueDays as due date, whatever
\* defaultDueDays the state holds, 0 included, and that is the due date
\* normalize gives an invoice of that issue date that has none.
C18_DueDates ==
    [][ last'.op \in {"createInvoice", "duplicateInvoice"} =>
            LET new == Invoices(app')[1]
                days == Get(Settings(app), "defaultDueDays")
            IN  /\ Get(new, "issueDate") = DateStr(today)
                /\ days.t = "num"
                /\ Get(new, "dueDate") = DateStr(today + days.n \div Unit)
                /\ Get(new, "dueDate") = addDaysISO(Get(new, "issueDate"), days, tz)
      ]_vars

\* C19: settings.nextInvoiceNumber is a monotonic counter: no step makes it
\* smaller, and it changes only when an invoice is created or duplicated.
C19_CounterMonotonic ==
    [][ /\ Counter(app).t = "num" /\ Counter(app').t = "num"
        /\ Counter(app').n >= Counter(app).n
        /\ Counter(app') # Counter(app) =>
              last'.op \in {"createInvoice", "duplicateInvoice"}
      ]_vars

\* C19 as amended: createInvoice and duplicateInvoice never make the
\* counter smaller, each sets it to max(1, nextInvoiceNumber) + 1; apart
\* from them only the "Next invoice number" input of the settings and an
\* import change it.
C19_CounterSteps ==
    [][ /\ last'.op \in {"createInvoice", "duplicateInvoice"} =>
              /\ Counter(app).t = "num" /\ Counter(app').t = "num"
              /\ Counter(app').n >= Counter(app).n
              /\ Counter(app').n =
                     (IF Counter(app).n > Unit THEN Counter(app).n ELSE Unit) + Unit
        /\ Counter(app') # Counter(app) =>
              last'.op \in {"createInvoice", "duplicateInvoice",
                            "setNextInvoiceNumber", "import"}
      ]_vars

\* C19 happens: the counter was set to 3 in the settings and createInvoice
\* used 3 and left 4.
C19_Witness ==
    /\ last.op = "createInvoice"
    /\ Counter(app) = Whole(4)
    /\ Get(Invoices(app)[1], "invoiceNumber") = Str("INV-0003")

---------------------------------------------------------------------------
(* Claims about storage, under Spec *)

\* C20: after every replacement of the application state -- an edit, a new,
\* duplicated or deleted invoice, an import, a change of the settings --
\* the storage key holds the serialization of the state that replaced it:
\* storage holds the current state, never an older one.
C20_Autosave ==
    /\ stored.file = "json"
    /\ stored.value = Jsonable(app)

\* C20 happens: an invoice was created and then deleted, and the stored
\* document has the state after the deletion, no invoice and the counter 2.
C20_Witness ==
    /\ last.op = "deleteInvoice" /\ last.ok
    /\ Invoices(safeParse(stored, Null)) = <<>>
    /\ Counter(safeParse(stored, Null)) = Whole(2)
    /\ Counter(app) = Whole(2)

---------------------------------------------------------------------------
(* Claims about printing, under SpecPrint *)

\* C21: whenever printInvoicePDF makes the browser print, the print preview
\* is open and an invoice is active at that moment, whether or not the user
\* closed the preview or the selection changed while the timeout was
\* pending; without an active invoice printInvoicePDF opens no preview and
\* sets no timeout.
C21_PrintsOnlyTheSheet ==
    [][ /\ last'.op = "print" => (last'.preview /\ last'.invoice # Null)
        /\ (last'.op = "printInvoicePDF" /\ activeInvoiceOf(app, activeInvoiceId) = Null) =>
              UNCHANGED <<previewOpen, printTimers>>
      ]_vars

---------------------------------------------------------------------------
(* Claims about the CSV export, under SpecCsv and SpecExport *)

\* The text holds a comma, a double quote or a newline.
NeedsQuoting(s) == \E i \in 1..Len(s) : SubSeq(s, i, i) \in {",", "\"", "\n"}

\* The number of double quotes of the text.
RECURSIVE QuotesIn(_)
QuotesIn(s) ==
    IF s = "" THEN 0 ELSE (IF Head(s) = "\"" THEN 1 ELSE 0) + QuotesIn(Tail(s))

\* The length of the field as the claim has it emitted: with two quotes
\* around it and every quote in it twice when it needs quoting.
RECURSIVE EmittedLength(_)
EmittedLength(row) ==
    IF row = <<>> THEN 0
    ELSE Len(row[1]) + (IF NeedsQuoting(row[1]) THEN 2 + QuotesIn(row[1]) ELSE 0)
         + (IF Len(row) > 1 THEN 1 ELSE 0) + EmittedLength(Tail(row))

\* The records of a CSV text by the rules of RFC 4180, read from position
\* i on: a field that opens with a double quote runs to the next double
\* quote that is not doubled, and a doubled one stands for one; a comma
\* outside quotes ends a field and a newline outside quotes ends a record.
\* quoted: 0 outside quotes, 1 inside, 2 after the quote that closed them.
RECURSIVE CsvRecords(_, _, _, _, _, _)
CsvRecords(s, i, quoted, field, record, records) ==
    IF i > Len(s) THEN Append(records, Append(record, field))
    ELSE LET c == SubSeq(s, i, i)
         IN  IF quoted = 1
             THEN IF c # "\"" THEN CsvRecords(s, i + 1, 1, field \o c, record, records)
                  ELSE IF i < Len(s) /\ SubSeq(s, i + 1, i + 1) = "\""
                  THEN CsvRecords(s, i + 2, 1, field \o "\"", record, records)
                  ELSE CsvRecords(s, i + 1, 2, field, record, records)
             ELSE IF c = ","
             THEN CsvRecords(s, i + 1, 0, "", Append(record, field), records)
             ELSE IF c = "\n"
             THEN CsvRecords(s, i + 1, 0, "", <<>>, Append(records, Append(record, field)))
             ELSE IF c = "\"" /\ quoted = 0 /\ field = ""
             THEN CsvRecords(s, i + 1, 1, "", record, records)
             ELSE CsvRecords(s, i + 1, quoted, field \o c, record, records)

\* C22: in the text of a row, a field value that holds a comma, a double
\* quote or a newline is wrapped in double quotes with every double quote
\* in it doubled, and a row of values that hold none of them is the values
\* joined by commas, unchanged; reading the text of the row by the CSV
\* rules gives one record, of the ten values the row was made of.
C22_CsvQuoting ==
    fnPc = "done" =>
        /\ Len(fnOut[1]) = EmittedLength(fnIn)
        /\ (\A i \in DOMAIN fnIn : ~NeedsQuoting(fnIn[i])) => fnOut[1] = Join(fnIn, ",")
        /\ CsvRecords(fnOut[1], 1, 0, "", <<>>, <<>>) = <<fnIn>>

\* C22 happens: a row with the values  a"  and  ,\n  was emitted with
\* "a"""  and  ",\n"  in their places.
C22_Witness ==
    /\ fnPc = "done"
    /\ fnIn[1] = "a\"" /\ fnIn[2] = ",\n" /\ fnIn[3] = "a"
    /\ SubSeq(fnOut[1], 1, 12) = "\"a\"\"\",\",\n\",a"

\* The row the claim gives an invoice: its number, issue date, due date,
\* the name of its client, its status, net, tax rate, tax and gross with
\* the amounts to two decimals, and the currency of the settings.
ExpectedRow(a, inv) ==
    LET t == calcTotals(inv)
    IN  << Get(inv, "invoiceNumber"), Get(inv, "issueDate"), Get(inv, "dueDate"),
           Or(Get(FindById(Clients(a), Get(inv, "clientId")), "name"), Str("")),
           Get(inv, "status"), toFixed2(t.net), NumStr(t.vatRate), toFixed2(t.vat),
           toFixed2(t.gross), Get(Settings(a), "currency") >>

\* The day of an issue date, and a day before all days for none.
IssuedOn(v) == IF IsDateStr(v) THEN v.day ELSE -1

\* C23: the CSV export gives the header row invoiceNumber, issueDate,
\* dueDate, client, status, net, vatRate, vat, gross, currency and after it
\* exactly one row for every invoice of the state, with the values in that
\* order of columns and the rows by issue date, latest first; the state and
\* the order of its invoices are after the export what they were before.
C23_CsvRows ==
    [][ last'.op = "exportCSV" =>
            LET out == fnOut'[1]
                n == Len(Invoices(app))
            IN  /\ out[1] = <<"invoiceNumber", "issueDate", "dueDate", "client", "status",
                              "net", "vatRate", "vat", "gross", "currency">>
                /\ Len(out) = n + 1
                /\ \E p \in Permutations(1..n) :
                      \A i \in 1..n : out[i + 1] = ExpectedRow(app, Invoices(app)[p[i]])
                /\ \A i, j \in 1..n : i < j => IssuedOn(out[i + 1][2]) >= IssuedOn(out[j + 1][2])
                /\ app' = app
      ]_vars

\* C23 happens: the state holds the invoice of day StartDay - 2 before the
\* one of day StartDay - 1, and the export has them the other way round,
\* the first with the name of its client and the gross 119.00.
C23_Witness ==
    /\ last.op = "exportCSV"
    /\ Len(Invoices(app)) = 2
    /\ Get(Invoices(app)[1], "issueDate") = DateStr(StartDay - 2)
    /\ Get(Invoices(app)[2], "issueDate") = DateStr(StartDay - 1)
    /\ Len(fnOut[1]) = 3
    /\ fnOut[1][2][2] = DateStr(StartDay - 1)
    /\ fnOut[1][3][2] = DateStr(StartDay - 2)
    /\ fnOut[1][3][4] = Str("Acme")
    /\ fnOut[1][3][9] = toFixed2(Num(11900))

---------------------------------------------------------------------------
(* Claims about the frame of the invoice handlers, under Spec *)

\* The state b is the state a with the fields of the patch merged into the
\* invoices whose id is the patch's, and nothing else changed.
PatchedOnly(b, a, patch) ==
    /\ Len(Invoices(b)) = Len(Invoices(a))
    /\ \A i \in DOMAIN Invoices(a) :
          IF Get(Invoices(a)[i], "id") = Get(patch, "id")
          THEN /\ DOMAIN Invoices(b)[i].o = DOMAIN Invoices(a)[i].o \cup DOMAIN patch.o
               /\ \A k \in DOMAIN patch.o : Invoices(b)[i].o[k] = patch.o[k]
               /\ \A k \in DOMAIN Invoices(a)[i].o \ DOMAIN patch.o :
                     Invoices(b)[i].o[k] = Invoices(a)[i].o[k]
          ELSE Invoices(b)[i] = Invoices(a)[i]
    /\ Clients(b) = Clients(a)
    /\ Settings(b) = Settings(a)
    /\ Get(b, "profile") = Get(a, "profile")
    /\ FreshIn(Get(patch, "id"), Invoices(a)) => b = a

\* Patches for the state: a status and a note, for the id of each invoice
\* and for an id that no invoice has.
PatchesFor(a) ==
    {Obj([id |-> id, status |-> Str("Paid"), notes |-> Str("paid in cash")]) :
        id \in {Get(Invoices(a)[i], "id") : i \in DOMAIN Invoices(a)} \cup {Str("gone")}}

\* C24: upsertInvoice(patch) merges the fields of the patch into the
\* invoice whose id is patch.id and leaves every other invoice, the order
\* and number of the invoices, the clients, the settings and the profile as
\* they are; when no invoice has the id the state stays as it is: nothing
\* is inserted.  It holds of the status select of a row and of Save of the
\* editor, which call it, and of every patch in every reachable state.
C24_UpsertFrame ==
    /\ [](\A patch \in PatchesFor(app) : PatchedOnly(upsertInvoice(app, patch), app, patch))
    /\ [][ /\ last'.op = "setStatus" =>
                 \E st \in STATUS :
                     PatchedOnly(app', app, Obj([id |-> last'.id, status |-> Str(st)]))
           /\ last'.op = "saveInvoice" => PatchedOnly(app', app, savedDraft(draft))
         ]_vars

\* C24 happens: of the two imported invoices the second was edited to
\* Overdue and saved; the first is as it was imported.
C24_Witness ==
    /\ last.op = "saveInvoice" /\ last.id = Str("i2")
    /\ Len(Invoices(app)) = 2
    /\ Invoices(app)[1] = sampleInvoice("i1", "c1", "Sent", Whole(19))
    /\ Get(Invoices(app)[2], "status") = Str("Overdue")
    /\ Get(Invoices(app)[2], "invoiceNumber") = Str("INV-0001")

\* C25: a confirmed deleteInvoice(id) removes exactly the invoices with the
\* id and leaves the other invoices, their order, the clients, the settings
\* with nextInvoiceNumber and the profile as they are; declined, it leaves
\* the state, the selection and the notice as they are and raises none.
C25_DeleteInvoiceFrame ==
    [][ last'.op = "deleteInvoice" =>
            IF last'.ok
            THEN /\ FreshIn(last'.id, Invoices(app'))
                 /\ Invoices(app') =
                        SelectSeq(Invoices(app), LAMBDA inv : Get(inv, "id") # last'.id)
                 /\ Clients(app') = Clients(app)
                 /\ Settings(app') = Settings(app)
                 /\ Get(app', "profile") = Get(app, "profile")
            ELSE /\ app' = app
                 /\ activeInvoiceId' = activeInvoiceId
                 /\ toast' = toast
                 /\ raised' = <<>>
      ]_vars

\* C25 happens: of an invoice and its duplicate the duplicate was deleted;
\* the first invoice is left and the counter is still 3.
C25_Witness ==
    /\ last.op = "deleteInvoice" /\ last.ok
    /\ Len(Invoices(app)) = 1
    /\ Get(Invoices(app)[1], "invoiceNumber") = Str("INV-0001")
    /\ hist.assigned = {Str("INV-0001"), Str("INV-0002")}
    /\ Counter(app) = Whole(3)

\* No import replaced the state and no settings input changed so far.
Untouched(h) == ~h.imported /\ ~h.settings

\* C26: from the default empty state, as long as no settings input is
\* changed and nothing is imported, the numbers createInvoice and
\* duplicateInvoice assign are pairwise distinct, whatever is edited and
\* deleted in between: the invoices of the state have numbers that differ,
\* and a number assigned once, to an invoice since deleted or not, is not
\* assigned again.
C26_NumbersDistinct ==
    /\ [](Untouched(hist) =>
             \A i, j \in DOMAIN Invoices(app) :
                 i # j => Get(Invoices(app)[i], "invoiceNumber") #
                          Get(Invoices(app)[j], "invoiceNumber"))
    /\ [][ (last'.op \in {"createInvoice", "duplicateInvoice"} /\ Untouched(hist')) =>
               /\ Get(Invoices(app')[1], "invoiceNumber") \notin hist.assigned
               /\ hist'.assigned = hist.assigned \cup {Get(Invoices(app')[1], "invoiceNumber")}
         ]_vars

\* C26 happens: an invoice was created and deleted, and the next one
\* created has the number INV-0002, not the number that was freed.
C26_Witness ==
    /\ last.op = "createInvoice"
    /\ Untouched(hist)
    /\ hist.assigned = {Str("INV-0001"), Str("INV-0002")}
    /\ Len(Invoices(app)) = 1
    /\ Get(Invoices(app)[1], "invoiceNumber") = Str("INV-0002")

\* C27: Save of the editor opened on an invoice, with no edit in between,
\* leaves the invoice and the whole state as they are, for every invoice of
\* a reachable state, one with tax rate 0 or with quantities 0 included;
\* Cancel leaves the state as it is whatever was edited.
C27_SaveWithoutEdit ==
    [][ /\ (last.op = "openInvoice" /\ last'.op = "saveInvoice") => app' = app
        /\ last'.op = "closeInvoiceModal" => app' = app
      ]_vars

\* C28: for every state reached by operations of the session, without an
\* import -- new, duplicated and deleted invoices, saves of the editor with
\* cleared dates and removed lines among them, saved and deleted clients,
\* changed settings -- the stored text, parsed by safeParse and normalised,
\* is a state equal to the one that was stored.
C28_ReloadRoundTrip ==
    ~hist.imported =>
        \E r \in {normalizeData(safeParse(stored, Null), today, tz, uidc)} :
            ~r.threw /\ r.out = app

---------------------------------------------------------------------------
(* Claims about the selection, under Spec *)

\* C29: in every reachable state the selection is empty or the id of an
\* invoice of the state: createInvoice selects the invoice it made, a
\* confirmed deleteInvoice of the selected invoice empties the selection,
\* and an import that replaces the state empties it.
C29_SelectionValid ==
    /\ [](activeInvoiceId = Null \/ ~FreshIn(activeInvoiceId, Invoices(app)))
    /\ [][ /\ last'.op = "createInvoice" =>
                 activeInvoiceId' = Get(Invoices(app')[1], "id")
           /\ (last'.op = "deleteInvoice" /\ last'.ok /\ activeInvoiceId = last'.id) =>
                 activeInvoiceId' = Null
           /\ (last'.op = "import" /\ last'.outcome = "replaced") =>
                 activeInvoiceId' = Null
         ]_vars

\* C29 happens: of the two imported invoices the selected one was deleted;
\* the other is left and nothing is selected.
C29_Witness ==
    /\ last.op = "deleteInvoice" /\ last.ok /\ last.id = Str("i1")
    /\ hist.imported
    /\ activeInvoiceId = Null
    /\ Len(Invoices(app)) = 1
    /\ Get(Invoices(app)[1], "id") = Str("i2")
    /\ toast = Str("Deleted")

---------------------------------------------------------------------------
(* Claims about the notices, under SpecNotify *)

\* C30: notify(msg) shows msg, clears the hide timer that is pending and
\* sets a new one: at most one hide timer is pending at any time, the
\* timer that hides a notice is the one set for that notice, never one set
\* for an earlier notice, and a notice that shows is hidden in the end,
\* after the last call of notify.
C30_Notices ==
    /\ [](Cardinality(timers) <= 1)
    /\ [][ /\ last'.op = "notify" =>
                 /\ toast' = Str(last'.msg)
                 /\ toastTimer' \notin timers
                 /\ timers' = {toastTimer'}
           /\ last'.op = "hideTimeout" => last'.timer = toastTimer
         ]_vars
    /\ (toast # Null) ~> (toast = Null)

\* C30 happens: "Saved" was raised while the timer of the notice before it
\* was pending; that timer is cleared, "Saved" shows and its timer, the
\* second, is the one that is pending.
C30_Witness ==
    /\ last.op = "notify" /\ last.msg = "Saved" /\ last.cleared
    /\ toast = Str("Saved")
    /\ toastTimer = 2
    /\ timers = {2}

===========================================================================
